---- MODULE Spec2Model ----
(***************************************************************************)
(* Configuration override engine of kapacitor: the override package (the   *)
(* two-argument Override used by the config service, and the later         *)
(* Override/OverrideAll with list-valued sections), the redacted view, and *)
(* the config HTTP service with its override store and update channel.     *)
(*                                                                         *)
(* Go string data is a sequence of one-character strings, so that parsing  *)
(* is computed; section names, option names and tags are TLA+ strings.     *)
(***************************************************************************)
EXTENDS Integers, Sequences, FiniteSets, TLC

\* ------------------------------------------------------------------ values

\* A dynamic Go value (interface{}): kind k, string data s, number n, and h
\* the number of halves above n (a float64 is n + h/2). A bool is n = 0 / 1,
\* a slice or map is n = -1 when nil. reflect.ValueOf(nil) has kind "invalid".
Val(k, s, n, h) == [k |-> k, s |-> s, n |-> n, h |-> h]
Str(s) == Val("string", s, 0, 0)
F64(n, h) == Val("float64", <<>>, n, h)
Num(k, n) == Val(k, <<>>, n, 0)
Nil == Val("invalid", <<>>, 0, 0)

IntKinds == {"int", "int8", "int16", "int32", "int64"}
UintKinds == {"uint", "uint8", "uint16", "uint32", "uint64"}
FloatKinds == {"float32", "float64"}

isIntKind(k) == k \in IntKinds
isUintKind(k) == k \in UintKinds
isFloatKind(k) == k \in FloatKinds
isNumericKind(k) == isIntKind(k) \/ isUintKind(k) \/ isFloatKind(k)

\* Bit width of an integer kind; 0 stands for a width (32 or 64 bits) that no
\* number of the model reaches.
Width(k) == CASE k \in {"int8", "uint8"} -> 8
              [] k \in {"int16", "uint16"} -> 16
              [] OTHER -> 0

RECURSIVE Pow2(_)
Pow2(w) == IF w = 0 THEN 1 ELSE 2 * Pow2(w - 1)

\* The two's complement value an integer of kind k holds after being
\* assigned n.
Wrap(k, n) ==
    IF Width(k) = 0 THEN n
    ELSE IF isUintKind(k) THEN n % Pow2(Width(k))
    ELSE ((n + Pow2(Width(k) - 1)) % Pow2(Width(k))) - Pow2(Width(k) - 1)

\* The zero value of a kind.
Zero(k) == IF k = "string" THEN Str(<<>>)
           ELSE IF k \in {"slice", "map"} THEN Val(k, <<>>, -1, 0)
           ELSE Val(k, <<>>, 0, 0)

\* A Convert that hands the source out as it is, of the source's kind.
Unconverted(src, dstK) == src


\* A Convert that changes the kind and keeps the number, whatever the width.
convertUnwrapped(src, dstK) == Val(dstK, <<>>, src.n, src.h)


\* reflect.Value.Convert between numeric kinds: a float is truncated toward
\* zero, an integer wraps to the destination's width.
Convert(src, dstK) ==
    IF isFloatKind(dstK)
    THEN Val(dstK, <<>>, src.n, src.h)
    ELSE LET t == IF src.h = 1 /\ src.n < 0 THEN src.n + 1 ELSE src.n
         IN  Num(dstK, Wrap(dstK, t))

\* The characters of the model's strings, in byte order.
CharOrder == <<"+", "-", ".", "0", "1", "2", "3", "4", "5", "6", "7", "8", "9",
               "a", "b", "c", "n", "o", "s", "x">>

Digits == <<"0", "1", "2", "3", "4", "5", "6", "7", "8", "9">>
IsDigit(c) == \E i \in 1..10 : Digits[i] = c
DigitVal(c) == (CHOOSE i \in 1..10 : Digits[i] = c) - 1

RECURSIVE ParseDigits(_, _)
ParseDigits(s, acc) ==
    IF s = <<>> THEN acc ELSE ParseDigits(Tail(s), 10 * acc + DigitVal(Head(s)))

AllDigits(s) == s # <<>> /\ \A i \in 1..Len(s) : IsDigit(s[i])

\* strconv.ParseUint(s, 10, 64): digits only.
ParseUint(s) == IF AllDigits(s) THEN [ok |-> TRUE, n |-> ParseDigits(s, 0)]
                ELSE [ok |-> FALSE, n |-> 0]

\* strconv.ParseInt(s, 10, 64): an optional sign, then digits.
ParseInt(s) ==
    IF s # <<>> /\ Head(s) \in {"+", "-"}
    THEN IF AllDigits(Tail(s))
         THEN [ok |-> TRUE,
               n |-> IF Head(s) = "-" THEN 0 - ParseDigits(Tail(s), 0)
                     ELSE ParseDigits(Tail(s), 0)]
         ELSE [ok |-> FALSE, n |-> 0]
    ELSE ParseUint(s)

\* strconv.ParseFloat(s, 64) on the decimal forms the model uses: a signed
\* integer, optionally followed by ".0" or ".5".
ParseFloat(s) ==
    LET dot == {i \in 1..Len(s) : s[i] = "."}
    IN  IF dot = {}
        THEN LET r == ParseInt(s) IN [ok |-> r.ok, n |-> r.n, h |-> 0]
        ELSE LET i == CHOOSE j \in dot : TRUE
                 ip == ParseInt(SubSeq(s, 1, i - 1))
                 fr == SubSeq(s, i + 1, Len(s))
             IN  IF ip.ok /\ fr \in {<<"0">>, <<"5">>}
                 THEN IF fr = <<"5">> /\ Head(s) = "-"
                      THEN [ok |-> TRUE, n |-> ip.n - 1, h |-> 1]
                      ELSE [ok |-> TRUE, n |-> ip.n, h |-> IF fr = <<"5">> THEN 1 ELSE 0]
                 ELSE [ok |-> FALSE, n |-> 0, h |-> 0]

\* ------------------------------------------------------------ struct tags

\* A struct tag value after strings.Split(tag, ","): a sequence of parts. A
\* part "element-key=id" is [kw |-> "element-key=", arg |-> "id"]; any other
\* part is its text in kw. An absent tag splits into the one part "".
P(kw) == [kw |-> kw, arg |-> ""]
NoTag == <<P("")>>
structTagKey == "override"
redactKeyword == "redact"
elementKeyword == "element-key="

\* A struct field: its Go name, its kind, the struct type it holds (for the
\* kinds struct, ptr and slice) and its tags.
Field(name, kind, type, toml, override) ==
    [name |-> name, kind |-> kind, type |-> type,
     tags |-> [toml |-> toml, override |-> override]]

\* override_test.go: SectionNums, one untagged field of every numeric kind,
\* the one section of NumConfig.
\* service_test.go: SectionA, SectionB, TestConfig. Config is the shape of
\* SectionT, TextConfig: a section with a field of a named int64 type whose
\* pointer implements encoding.TextUnmarshaler, the case of
\* service_test.go 815.
\* the override package's documentation: a singleton section (here of type
\* SectionB, with its redacted password), a list-valued section keyed by
\* id, an untagged field, and override_test.go's SectionC behind a pointer.
TypeFields ==
    [SectionA |-> <<Field("Option1", "string", "", <<P("option-1")>>, NoTag)>>,
     SectionB |-> <<Field("Option2", "string", "", <<P("option-2")>>, NoTag),
                    Field("Password", "string", "", <<P("password")>>, <<P(""), P("redact")>>)>>,
     SectionC |-> <<Field("Option4", "int64", "", <<P("option-4")>>, NoTag),
                    Field("Password", "string", "", <<P("password")>>, <<P(""), P("redact")>>)>>,
     Element |-> <<Field("ID", "string", "", <<P("id")>>, NoTag),
                   Field("Option", "string", "", <<P("option")>>, NoTag)>>,
     TestConfig |-> <<Field("SectionA", "struct", "SectionA", <<P("section-a")>>, <<P("section-a")>>),
                      Field("SectionB", "struct", "SectionB", <<P("section-b")>>, <<P("section-b")>>)>>,
     SectionNums |-> <<Field("Int", "int", "", NoTag, NoTag),
                      Field("Int8", "int8", "", NoTag, NoTag),
                      Field("Int16", "int16", "", NoTag, NoTag),
                      Field("Int32", "int32", "", NoTag, NoTag),
                      Field("Int64", "int64", "", NoTag, NoTag),
                      Field("Uint", "uint", "", NoTag, NoTag),
                      Field("Uint8", "uint8", "", NoTag, NoTag),
                      Field("Uint16", "uint16", "", NoTag, NoTag),
                      Field("Uint32", "uint32", "", NoTag, NoTag),
                      Field("Uint64", "uint64", "", NoTag, NoTag),
                      Field("Float32", "float32", "", NoTag, NoTag),
                      Field("Float64", "float64", "", NoTag, NoTag)>>,
     NumConfig |-> <<Field("SectionNums", "struct", "SectionNums", NoTag, <<P("section-nums")>>)>>,
     Config |-> <<Field("SectionA", "struct", "SectionB", <<P("section-a")>>, <<P("section-a")>>),
                  Field("SectionL", "slice", "Element", <<P("section-l")>>,
                        <<P("section-l"), [kw |-> elementKeyword, arg |-> "id"]>>),
                  Field("SectionC", "ptr", "SectionC", <<P("section-c")>>, <<P("section-c")>>),
                  Field("IgnoredField", "string", "", NoTag, NoTag)>>,
     SectionT |-> <<Field("Timeout", "int64", "Duration", <<P("timeout")>>, NoTag),
                    Field("Option", "string", "", <<P("option")>>, NoTag)>>,
     TextConfig |-> <<Field("SectionT", "struct", "SectionT", <<P("section-t")>>, <<P("section-t")>>)>>]

\* tagFieldName: the first part of the given tag, or the Go field name.
tagFieldName(tag, f) ==
    IF f.tags[tag][1].kw = "" THEN f.name ELSE f.tags[tag][1].kw

\* The OptionNameFunc of an Overrider is the tag it reads: "toml" is
\* TomlFieldName, "override" is OverrideFieldName.
optionNameFunc(tag, f) == tagFieldName(tag, f)

isRedacted(f) ==
    LET parts == f.tags[structTagKey]
    IN  Len(parts) > 1 /\ \E i \in 2..Len(parts) : parts[i].kw = redactKeyword

\* part_001: getSectionName. strings.Split never returns an empty slice, so
\* the tag's first part is returned as the name, with ok, for every field:
\* an untagged field is a section named "".
getSectionName(f) ==
    LET parts == f.tags[structTagKey]
    IN  IF Len(parts) > 0 THEN [name |-> parts[1].kw, ok |-> TRUE]
        ELSE [name |-> f.name, ok |-> FALSE]

\* ---------------------------------------------- Override(section, overrides)

\* No value: an invalid reflect.Value, a nil interface, an absent map.
NoValue == [k \in {} |-> 0]

\* part_001: weakCopyValue into a settable field of kind dstK whose type is
\* the builtin type of that kind. [err, v]: the error, or the value stored.
weakCopyValue(src, dstK) ==
    IF src.k = dstK THEN [err |-> "", v |-> src]
    ELSE IF isNumericKind(dstK) /\ isNumericKind(src.k)
    THEN [err |-> "", v |-> Convert(src, dstK)]
    ELSE IF isNumericKind(dstK) /\ src.k = "string" /\ isIntKind(dstK) /\ ParseInt(src.s).ok
    THEN [err |-> "", v |-> Num(dstK, Wrap(dstK, ParseInt(src.s).n))]
    ELSE IF isNumericKind(dstK) /\ src.k = "string" /\ isUintKind(dstK) /\ ParseUint(src.s).ok
    THEN [err |-> "", v |-> Num(dstK, Wrap(dstK, ParseUint(src.s).n))]
    ELSE IF isNumericKind(dstK) /\ src.k = "string" /\ isFloatKind(dstK) /\ ParseFloat(src.s).ok
    THEN [err |-> "", v |-> Val(dstK, <<>>, ParseFloat(src.s).n, ParseFloat(src.s).h)]
    ELSE [err |-> "wrong type", v |-> Zero(dstK)]

\* The struct a section field holds, for the walk below it: the fields of a
\* struct, nothing for any other kind.
SubFields(f) == IF f.kind = "struct" THEN TypeFields[f.type] ELSE <<>>

newOverrideWalker(section, set) ==
    [section |-> section, set |-> set, used |-> {}, sectionValue |-> "",
     currentSectionName |-> "", err |-> ""]

\* part_001: overrideWalker.StructField at depth 1, after weakCopyValue has
\* answered r for the option field f named name. st is the walk: the walker
\* w and the copy it writes.
setOption(st, sf, f, name, r) ==
    IF r.err # "" THEN [st EXCEPT !.w.err = "cannot set option"]
    ELSE [st EXCEPT !.w.used = @ \cup {name}, !.copy[sf.name][f.name] = r.v]

\* part_001: overrideWalker.StructField at depth 1 on the option field f of
\* the section field sf.
optionField(st, tag, sf, f) ==
    IF st.w.currentSectionName # st.w.section \/ optionNameFunc(tag, f) \notin DOMAIN st.w.set
    THEN st
    ELSE setOption(st, sf, f, optionNameFunc(tag, f),
                   weakCopyValue(st.w.set[optionNameFunc(tag, f)], f.kind))

\* The walk over the option fields i.. of the section field sf; an error
\* ends the walk.
RECURSIVE walkOptions(_, _, _, _)
walkOptions(st, tag, sf, i) ==
    IF i > Len(SubFields(sf)) \/ st.w.err # "" THEN st
    ELSE walkOptions(optionField(st, tag, sf, SubFields(sf)[i]), tag, sf, i + 1)

\* part_001: overrideWalker.StructField at depth 0 on the top-level field
\* f, given getSectionName(f).
sectionField(st, f, sn) ==
    IF ~sn.ok THEN st
    ELSE [st EXCEPT !.w.currentSectionName = sn.name,
                    !.w.sectionValue = IF st.w.section = sn.name THEN f.name ELSE @]

\* The walk over the top-level fields i.. of the copy, and into each one.
RECURSIVE walkSections(_, _, _, _)
walkSections(st, tag, type, i) ==
    IF i > Len(TypeFields[type]) \/ st.w.err # "" THEN st
    ELSE walkSections(walkOptions(sectionField(st, TypeFields[type][i],
                                               getSectionName(TypeFields[type][i])),
                                  tag, TypeFields[type][i], 1),
                      tag, type, i + 1)

unused(w) == {name \in DOMAIN w.set : name \notin w.used}

\* part_001: overrideWalker.sectionObject and the rest of Override, once the
\* walk has ended in st. [err, type, section]: the error, or the Section's
\* struct type and value.
sectionObject(type, st) ==
    IF st.w.err # ""
    THEN [err |-> "failed to apply changes", type |-> "", section |-> NoValue]
    ELSE IF unused(st.w) # {}
    THEN [err |-> "unknown options", type |-> "", section |-> NoValue]
    ELSE IF st.w.sectionValue = ""
    THEN [err |-> "unknown section", type |-> "", section |-> NoValue]
    ELSE [err |-> "",
          type |-> (CHOOSE f \in {TypeFields[type][j] : j \in 1..Len(TypeFields[type])} :
                       f.name = st.w.sectionValue).type,
          section |-> st.copy[st.w.sectionValue]]

\* An Override that resolves a section without laying the overrides over it.
OverrideOriginal(tag, type, original, section, overrides) ==
    sectionObject(type, walkSections([w |-> newOverrideWalker(section, NoValue),
                                      copy |-> original], tag, type, 1))

\* part_001: Overrider.Override on an Overrider built from a pointer to a
\* value of the given type. copystructure.Copy yields a tree disjoint from
\* the original, which the walk then writes: here the walk returns the
\* written copy.
Override(tag, type, original, section, overrides) ==
    IF section = "" THEN [err |-> "section cannot be empty", type |-> "", section |-> NoValue]
    ELSE sectionObject(type, walkSections([w |-> newOverrideWalker(section, overrides),
                                           copy |-> original], tag, type, 1))

\* ---------------------------------------------------------------- redaction

\* An isZero that knows nil only.
isNilOnly(f, v) == f.kind \in {"slice", "map"} /\ v.n = -1

\* isZero of a field's value, by the field's kind: nil for a slice or map,
\* field by field for a struct, equality with the zero value otherwise.
RECURSIVE isZero(_, _)
isZero(f, v) ==
    IF f.kind \in {"slice", "map"} THEN v.n = -1
    ELSE IF f.kind = "struct"
    THEN \A i \in 1..Len(TypeFields[f.type]) :
            isZero(TypeFields[f.type][i], v[TypeFields[f.type][i].name])
    ELSE v = Zero(f.kind)

\* A bool as a dynamic value.
Bool(b) == Val("bool", <<>>, IF b THEN 1 ELSE 0, 0)

\* A getRedactedValue that hands every value out as it is.
getPlainValue(f, v) == v

getRedactedValue(f, v) == IF isRedacted(f) THEN Bool(~isZero(f, v)) ELSE v

\* Section.Redacted: redactWalker.StructField at depth 0 writes
\* options[name] for each field in turn, so of two fields with one option
\* name the later one stays. A section that holds no struct has no fields.
Redacted(tag, s) ==
    LET fs == IF s.type = "" THEN <<>> ELSE TypeFields[s.type]
        names == {optionNameFunc(tag, fs[i]) : i \in 1..Len(fs)}
        last(n) == CHOOSE i \in 1..Len(fs) :
                      /\ optionNameFunc(tag, fs[i]) = n
                      /\ \A j \in 1..Len(fs) : optionNameFunc(tag, fs[j]) = n => j <= i
    IN  [n \in names |-> getRedactedValue(fs[last(n)], s.section[fs[last(n)].name])]

\* part_001: Overrider.Sections: sectionWalker.StructField at depth 0 writes
\* sections[name] for each top-level field for which getSectionName is ok.
Sections(type, original) ==
    LET fs == TypeFields[type]
        idx == {i \in 1..Len(fs) : getSectionName(fs[i]).ok}
        names == {getSectionName(fs[i]).name : i \in idx}
        last(n) == CHOOSE i \in idx :
                      /\ getSectionName(fs[i]).name = n
                      /\ \A j \in idx : getSectionName(fs[j]).name = n => j <= i
    IN  [n \in names |-> [type |-> IF fs[last(n)].kind = "struct" THEN fs[last(n)].type ELSE "",
                          section |-> original[fs[last(n)].name]]]

\* -------------------------------------------------- Override(o), OverrideAll

\* The memory an Overrider works on: cells, addressed from 1. A struct cell
\* holds a struct, an array cell the backing array of a slice. In a struct a
\* pointer field holds [ptr |-> address] and a slice field holds the slice
\* header [arr |-> address, len, cap]; address 0 is nil.
StructCell(type, v) == [t |-> "struct", type |-> type, v |-> v]
ArrayCell(type, v) == [t |-> "array", type |-> type, v |-> v]
Ptr(a) == [ptr |-> a]
SliceHdr(a, len, cap) == [arr |-> a, len |-> len, cap |-> cap]

\* The zero value of a struct type whose fields are not structs.
ZeroStruct(type) ==
    LET fs == TypeFields[type]
    IN  [n \in {fs[i].name : i \in 1..Len(fs)} |->
            Zero((CHOOSE f \in {fs[i] : i \in 1..Len(fs)} : f.name = n).kind)]

\* A copy that shares with the original the struct behind a pointer field:
\* only the backing arrays of the slices are copied.
RECURSIVE copySlicesOnly(_, _, _)
copySlicesOnly(h, dst, i) ==
    IF i > Len(TypeFields[h[dst].type]) THEN h
    ELSE LET f == TypeFields[h[dst].type][i]
             v == h[dst].v[f.name]
             a == Len(h) + 1
         IN  IF f.kind = "slice" /\ v.arr # 0
             THEN copySlicesOnly(Append([h EXCEPT ![dst].v[f.name] = SliceHdr(a, v.len, v.cap)],
                                        h[v.arr]), dst, i + 1)
             ELSE copySlicesOnly(h, dst, i + 1)


\* copystructure.Copy of the value at address r: a new cell for the struct,
\* for every struct behind a pointer field and for every backing array.
RECURSIVE copyFields(_, _, _)
copyFields(h, dst, i) ==
    IF i > Len(TypeFields[h[dst].type]) THEN h
    ELSE LET f == TypeFields[h[dst].type][i]
             v == h[dst].v[f.name]
             a == Len(h) + 1
         IN  IF f.kind = "ptr" /\ v.ptr # 0
             THEN copyFields(Append([h EXCEPT ![dst].v[f.name] = Ptr(a)], h[v.ptr]), dst, i + 1)
             ELSE IF f.kind = "slice" /\ v.arr # 0
             THEN copyFields(Append([h EXCEPT ![dst].v[f.name] = SliceHdr(a, v.len, v.cap)],
                                    h[v.arr]), dst, i + 1)
             ELSE copyFields(h, dst, i + 1)

ShallowCopy(h, r) == [h |-> Append(h, h[r]), root |-> Len(h) + 1]
Copy(h, r) == [h |-> copyFields(Append(h, h[r]), Len(h) + 1, 1), root |-> Len(h) + 1]

\* A reflect.Value the walker holds: the field f of the struct cell a, which
\* is a struct or a primitive ("field"), a pointer ("ptr") or a slice
\* ("slice"); the struct cell a itself ("cell"); the element i of the array
\* cell a ("elem"); or no value ("none").
NoLoc == [kind |-> "none", a |-> 0, f |-> "", i |-> 0, type |-> ""]
Loc(kind, a, f, i, type) == [kind |-> kind, a |-> a, f |-> f, i |-> i, type |-> type]

\* The struct at a location, and the memory after one of its fields is set.
StructAt(h, loc) ==
    CASE loc.kind = "field" -> h[loc.a].v[loc.f]
      [] loc.kind = "cell" -> h[loc.a].v
      [] loc.kind = "elem" -> h[loc.a].v[loc.i]
SetAt(h, loc, name, val) ==
    CASE loc.kind = "field" -> [h EXCEPT ![loc.a].v[loc.f][name] = val]
      [] loc.kind = "cell" -> [h EXCEPT ![loc.a].v[name] = val]
      [] loc.kind = "elem" -> [h EXCEPT ![loc.a].v[loc.i][name] = val]

\* service_test.go 1140: getSectionName. A field is a section only when its
\* tag's first part is not empty.
getSectionNameV2(f) ==
    LET parts == f.tags[structTagKey]
    IN  IF parts[1].kw # "" THEN [name |-> parts[1].kw, ok |-> TRUE]
        ELSE [name |-> f.name, ok |-> FALSE]

getElementKey(f) ==
    LET parts == f.tags[structTagKey]
        ks == {i \in 2..Len(parts) : parts[i].kw = elementKeyword}
    IN  IF ks = {} THEN "" ELSE parts[CHOOSE i \in ks : \A j \in ks : i <= j].arg

\* findFieldByElementKey on a struct of the given type: the index of the
\* field whose Go name is the key, else of the first field whose option
\* name is the key, else (the loop's last assignment stays in the named
\* result) of the last field; 0 when the struct has no field.
findFieldByElementKey(type, elementKey, tag) ==
    LET fs == TypeFields[type]
        byName == {i \in 1..Len(fs) : fs[i].name = elementKey}
        byOpt == {i \in 1..Len(fs) : optionNameFunc(tag, fs[i]) = elementKey}
    IN  IF byName # {} THEN CHOOSE i \in byName : TRUE
        ELSE IF byOpt # {} THEN CHOOSE i \in byOpt : \A j \in byOpt : i <= j
        ELSE Len(fs)

\* Fields of a named type whose pointer implements encoding.TextUnmarshaler
\* carry that type's name; UnmarshalText of the model's one such type
\* accepts what ParseInt accepts.
implementsTextUnmarshaler(f) == f.kind \notin {"struct", "ptr", "slice"} /\ f.type # ""

\* service_test.go 756: weakCopyValue into the settable field f holding cur.
\* A source that is nil has no type: src.Type() panics and the panic is
\* recovered into the error. The error of UnmarshalText is wrapped and
\* dropped, and the field keeps what UnmarshalText left in it.
weakCopyValueV2(src, f, cur) ==
    IF src.k = f.kind /\ implementsTextUnmarshaler(f)
    THEN [err |-> "cannot copy mismatched types", v |-> cur]
    ELSE IF src.k = f.kind THEN [err |-> "", v |-> src]
    ELSE IF implementsTextUnmarshaler(f)
    THEN IF src.k = "invalid" THEN [err |-> "panic", v |-> cur]
         ELSE IF src.k # "string" THEN [err |-> "cannot unmarshal", v |-> cur]
         ELSE IF ParseInt(src.s).ok
         THEN [err |-> "", v |-> Num(f.kind, Wrap(f.kind, ParseInt(src.s).n))]
         ELSE [err |-> "", v |-> cur]
    ELSE IF isNumericKind(f.kind)
    THEN IF isNumericKind(src.k) THEN [err |-> "", v |-> Convert(src, f.kind)]
         ELSE IF src.k = "invalid" THEN [err |-> "panic", v |-> cur]
         ELSE IF src.k # "string" THEN [err |-> "cannot convert", v |-> cur]
         ELSE IF isIntKind(f.kind) /\ ParseInt(src.s).ok
         THEN [err |-> "", v |-> Num(f.kind, Wrap(f.kind, ParseInt(src.s).n))]
         ELSE IF isUintKind(f.kind) /\ ParseUint(src.s).ok
         THEN [err |-> "", v |-> Num(f.kind, Wrap(f.kind, ParseUint(src.s).n))]
         ELSE IF isFloatKind(f.kind) /\ ParseFloat(src.s).ok
         THEN [err |-> "", v |-> Val(f.kind, <<>>, ParseFloat(src.s).n, ParseFloat(src.s).h)]
         ELSE [err |-> "cannot convert string", v |-> cur]
    ELSE [err |-> "wrong kind", v |-> cur]

\* service_test.go 474: Override, the request. Element is Go string data.
OverrideReq(section, element, options, delete, create) ==
    [Section |-> section, Element |-> element, Options |-> options,
     Delete |-> delete, Create |-> create]

\* A Validate that checks the section only.
validateSectionOnly(o) == IF o.Section = "" THEN "section cannot be empty" ELSE ""


\* Override.Validate: the request's self-consistency.
ValidateReq(o) ==
    IF o.Section = "" THEN "section cannot be empty"
    ELSE IF o.Delete /\ o.Element = <<>> THEN "element cannot be empty if deleting an element"
    ELSE IF o.Create /\ o.Element # <<>> THEN "element must be empty if creating an element"
    ELSE IF o.Delete /\ DOMAIN o.Options # {} THEN "cannot delete an element and provide options"
    ELSE IF o.Delete /\ o.Create THEN "cannot create and delete an element"
    ELSE ""

newOverrideWalkerV2(o) ==
    [o |-> o, used |-> {}, elementValue |-> NoLoc, currentSectionName |-> "",
     currentElementName |-> <<>>, currentSlice |-> NoLoc, elementKey |-> "", err |-> ""]

\* overrideWalker.StructField at depth 1 (service_test.go 624), after
\* weakCopyValue has answered r for the option field f named name of the
\* struct at loc. st is the walk: the memory h and the walker w.
setOptionV2(st, loc, f, name, r) ==
    IF r.err # ""
    THEN [h |-> SetAt(st.h, loc, f.name, r.v), w |-> [st.w EXCEPT !.err = "cannot set option"]]
    ELSE [h |-> SetAt(st.h, loc, f.name, r.v), w |-> [st.w EXCEPT !.used = @ \cup {name}]]

\* A StructField at depth 1 that lets any request set the element key.
optionFieldAnyKey(st, tag, loc, f) ==
    IF \/ st.w.currentSectionName # st.w.o.Section
       \/ st.w.currentElementName # st.w.o.Element
       \/ optionNameFunc(tag, f) \notin DOMAIN st.w.o.Options
    THEN st
    ELSE setOptionV2(st, loc, f, optionNameFunc(tag, f),
                     weakCopyValueV2(st.w.o.Options[optionNameFunc(tag, f)], f,
                                     StructAt(st.h, loc)[f.name]))


\* overrideWalker.StructField at depth 1 on the field f of the struct at
\* loc.
optionFieldV2(st, tag, loc, f) ==
    IF \/ st.w.currentSectionName # st.w.o.Section
       \/ st.w.currentElementName # st.w.o.Element
       \/ optionNameFunc(tag, f) \notin DOMAIN st.w.o.Options
    THEN st
    ELSE IF ~st.w.o.Create /\ optionNameFunc(tag, f) = st.w.elementKey
    THEN [st EXCEPT !.w.err = "cannot override element key"]
    ELSE setOptionV2(st, loc, f, optionNameFunc(tag, f),
                     weakCopyValueV2(st.w.o.Options[optionNameFunc(tag, f)], f,
                                     StructAt(st.h, loc)[f.name]))

\* The walk over the fields i.. of the struct at loc; an error ends the
\* walk.
RECURSIVE walkOptionsV2(_, _, _, _)
walkOptionsV2(st, tag, loc, i) ==
    IF i > Len(TypeFields[loc.type]) \/ st.w.err # "" THEN st
    ELSE walkOptionsV2(optionFieldV2(st, tag, loc, TypeFields[loc.type][i]), tag, loc, i + 1)

\* reflect.Append of one element to the slice in field sf.name of the struct
\* cell r: in place when the backing array has room, else into a new array
\* of twice the capacity.
appendElem(h, r, sf, e) ==
    LET s == h[r].v[sf.name]
        a == Len(h) + 1
        ncap == IF s.cap = 0 THEN 1 ELSE 2 * s.cap
    IN  IF s.arr # 0 /\ s.len < s.cap
        THEN [h EXCEPT ![s.arr].v[s.len + 1] = e,
                       ![r].v[sf.name] = SliceHdr(s.arr, s.len + 1, s.cap)]
        ELSE Append([h EXCEPT ![r].v[sf.name] = SliceHdr(a, s.len + 1, ncap)],
                    ArrayCell(sf.type,
                              [j \in 1..ncap |->
                                  IF j <= s.len THEN h[s.arr].v[j]
                                  ELSE IF j = s.len + 1 THEN e ELSE ZeroStruct(sf.type)]))

\* reflect.AppendSlice(s[0:idx], s[idx+1:len]) written back to the slice:
\* the elements after j (from 1) move down one place in the backing array.
spliceElem(h, r, fname, j) ==
    LET s == h[r].v[fname]
    IN  [h EXCEPT ![s.arr].v = [k \in 1..s.cap |->
                                   IF k >= j /\ k < s.len THEN h[s.arr].v[k + 1]
                                   ELSE h[s.arr].v[k]],
                  ![r].v[fname] = SliceHdr(s.arr, s.len - 1, s.cap)]

\* The zero element the walker creates, after SetDefaults when the element
\* type is a Defaulter (no type of the model is one).
newElement(type) == ZeroStruct(type)

\* overrideWalker.Slice (service_test.go 664-715) when an element is
\* created: h1 is the memory after the new element was appended to the slice
\* in field sf of the struct cell r, w1 the walker, k the index of the
\* element key field.
createElement(h1, w1, r, sf, k) ==
    IF w1.elementKey = ""
    THEN [h |-> h1, w |-> [w1 EXCEPT !.err = "no element key found"]]
    ELSE IF k = 0
    THEN [h |-> h1, w |-> [w1 EXCEPT !.err = "could not find field"]]
    ELSE IF TypeFields[sf.type][k].kind # "string"
    THEN [h |-> h1, w |-> [w1 EXCEPT !.err = "element key field must be of type string"]]
    ELSE IF w1.elementKey \notin DOMAIN w1.o.Options
    THEN [h |-> h1, w |-> [w1 EXCEPT !.err = "element key not present in options"]]
    ELSE IF w1.o.Options[w1.elementKey].k # "string"
    THEN [h |-> h1, w |-> [w1 EXCEPT !.err = "type of element key must be a string"]]
    ELSE [h |-> SetAt(h1, Loc("elem", h1[r].v[sf.name].arr, "", h1[r].v[sf.name].len, sf.type),
                      TypeFields[sf.type][k].name, w1.o.Options[w1.elementKey]),
          w |-> [w1 EXCEPT !.o.Element = w1.o.Options[w1.elementKey].s,
                           !.used = @ \cup {w1.elementKey}]]

\* overrideWalker.Slice (service_test.go 656) on the slice in field sf of
\* the struct cell r, at depth 1.
sliceV2(st, tag, r, sf) ==
    IF st.w.o.Section # st.w.currentSectionName THEN st
    ELSE IF st.w.o.Delete
    THEN [st EXCEPT !.w.currentSlice = Loc("field", r, sf.name, 0, sf.type),
                    !.w.elementValue = NoLoc]
    ELSE IF ~st.w.o.Create
    THEN [st EXCEPT !.w.currentSlice = Loc("field", r, sf.name, 0, sf.type)]
    ELSE createElement(appendElem(st.h, r, sf, newElement(sf.type)),
                       [st.w EXCEPT !.currentSlice = Loc("field", r, sf.name, 0, sf.type)],
                       r, sf, findFieldByElementKey(sf.type, st.w.elementKey, tag))

\* overrideWalker.SliceElem (service_test.go 719) on element j (from 1) of
\* the slice in field sf of the struct cell r.
sliceElemV2(st, tag, r, sf, j) ==
    IF st.w.currentSectionName # st.w.o.Section \/ st.w.o.Element = <<>> THEN st
    ELSE LET h == st.h
             w == st.w
             k == findFieldByElementKey(sf.type, w.elementKey, tag)
             kf == TypeFields[sf.type][k]
             s == h[r].v[sf.name]
             id == h[s.arr].v[j][kf.name].s
             w1 == [w EXCEPT !.currentElementName = <<>>]
         IN  IF w.elementKey = ""
             THEN [h |-> h, w |-> [w1 EXCEPT !.err = "an element key must be specified"]]
             ELSE IF k = 0
             THEN [h |-> h, w |-> [w1 EXCEPT !.err = "could not find field"]]
             ELSE IF kf.kind # "string"
             THEN [h |-> h, w |-> [w1 EXCEPT !.err = "element key field must be of type string"]]
             ELSE IF w.o.Element # id
             THEN [h |-> h, w |-> [w1 EXCEPT !.currentElementName = id]]
             ELSE IF w.o.Delete
             THEN [h |-> spliceElem(h, w.currentSlice.a, w.currentSlice.f, j),
                   w |-> [w1 EXCEPT !.currentElementName = id]]
             ELSE [h |-> h,
                   w |-> [w1 EXCEPT !.currentElementName = id,
                                    !.elementValue = Loc("elem", s.arr, "", j, sf.type)]]

\* reflectwalk's walk of element j after SliceElem has left the walk in e:
\* the element's fields, when SliceElem gave no error and the element is
\* still within the slice.
elemWalk(e, tag, r, sf, j) ==
    IF e.w.err # "" \/ j > e.h[r].v[sf.name].len THEN e
    ELSE walkOptionsV2(e, tag, Loc("elem", e.h[r].v[sf.name].arr, "", j, sf.type), 1)

\* reflectwalk's walk of the slice in field sf: SliceElem, then the walk of
\* the element, for j = 1, 2, ... while j is within the slice's length as
\* it is then.
RECURSIVE walkSliceV2(_, _, _, _, _)
walkSliceV2(st, tag, r, sf, j) ==
    IF j > st.h[r].v[sf.name].len \/ st.w.err # "" THEN st
    ELSE walkSliceV2(elemWalk(sliceElemV2(st, tag, r, sf, j), tag, r, sf, j), tag, r, sf, j + 1)

\* overrideWalker.StructField at depth 0 (service_test.go 612) on the field
\* f of the struct cell r.
sectionFieldV2(w, r, f) ==
    LET sn == getSectionNameV2(f)
    IN  IF ~sn.ok THEN [w EXCEPT !.currentSectionName = ""]
        ELSE IF w.o.Section # sn.name THEN [w EXCEPT !.currentSectionName = sn.name]
        ELSE [w EXCEPT !.currentSectionName = sn.name,
                       !.elementValue =
                           Loc(IF f.kind \in {"ptr", "slice"} THEN f.kind ELSE "field",
                               r, f.name, 0, f.type),
                       !.elementKey = getElementKey(f)]

\* reflectwalk's walk of the value of the top-level field f of the struct
\* cell r, at depth 1.
fieldWalk(st, tag, r, f) ==
    CASE f.kind = "struct" -> walkOptionsV2(st, tag, Loc("field", r, f.name, 0, f.type), 1)
      [] f.kind = "ptr" /\ st.h[r].v[f.name].ptr # 0 ->
            walkOptionsV2(st, tag, Loc("cell", st.h[r].v[f.name].ptr, "", 0, f.type), 1)
      [] f.kind = "slice" -> walkSliceV2(sliceV2(st, tag, r, f), tag, r, f, 1)
      [] OTHER -> st

\* reflectwalk.Walk of the struct cell r with the overrideWalker: for each
\* top-level field i.., StructField at depth 0 and then the walk of the
\* field's value at depth 1.
RECURSIVE walkSectionsV2(_, _, _, _)
walkSectionsV2(st, tag, r, i) ==
    IF i > Len(TypeFields[st.h[r].type]) \/ st.w.err # "" THEN st
    ELSE walkSectionsV2(fieldWalk([st EXCEPT !.w = sectionFieldV2(@, r, TypeFields[st.h[r].type][i])],
                                  tag, r, TypeFields[st.h[r].type][i]),
                        tag, r, i + 1)

\* An unused that reports no option.
noneUnused(w) == {}

unusedV2(w) == {name \in DOMAIN w.o.Options : name \notin w.used}

\* reflect.Value.Interface of a location, read out of the memory: the
\* struct of a singleton section or of an element, the struct behind a
\* pointer, the elements of a slice.
Interface(h, loc) ==
    LET v == h[loc.a].v[loc.f]
    IN  CASE loc.kind = "elem" -> h[loc.a].v[loc.i]
          [] loc.kind = "ptr" -> (IF v.ptr = 0 THEN NoValue ELSE h[v.ptr].v)
          [] loc.kind = "slice" ->
                (IF v.arr = 0 THEN <<>> ELSE [j \in 1..v.len |-> h[v.arr].v[j]])
          [] loc.kind = "field" -> v

\* A Validate that accepts every value.
validateNothing(type, v) == ""


\* The Validate method of the element types that are Validaters (service_test.go
\* 409): of the model's types SectionC is one, and rejects a negative Option4.
Validate(type, v) ==
    IF type = "SectionC" /\ v # NoValue /\ v.Option4.n < 0 THEN "failed validation" ELSE ""

NoElement == [err |-> "", element |-> <<>>, type |-> "", list |-> FALSE, value |-> NoValue]
ErrElement(e) == [NoElement EXCEPT !.err = e]

\* overrideWalker.elementObject and the rest of applyOverride
\* (service_test.go 448-471), once the walk has ended in st. [h, el]: the
\* memory, and the error or the Element returned: its id, its value, the
\* struct type of the value and whether the value is a slice.
elementObject(o, st) ==
    LET ev == st.w.elementValue
        isList == ev.kind = "slice"
    IN  IF st.w.err # "" THEN [h |-> st.h, el |-> ErrElement("failed to apply changes")]
        ELSE IF unusedV2(st.w) # {} THEN [h |-> st.h, el |-> ErrElement("unknown options")]
        ELSE IF ev.kind = "none" /\ ~o.Delete
        THEN [h |-> st.h, el |-> ErrElement("unknown section")]
        ELSE IF ev.kind = "none"
        THEN [h |-> st.h, el |-> NoElement]
        ELSE IF ~isList /\ Validate(ev.type, Interface(st.h, ev)) # ""
        THEN [h |-> st.h, el |-> ErrElement("failed validation")]
        ELSE [h |-> st.h,
              el |-> [err |-> "", element |-> st.w.o.Element, type |-> ev.type,
                      list |-> isList, value |-> Interface(st.h, ev)]]

\* Overrider.applyOverride on the object at address r.
applyOverride(h, tag, r, o) ==
    IF ValidateReq(o) # "" THEN [h |-> h, el |-> ErrElement("invalid override")]
    ELSE elementObject(o, walkSectionsV2([h |-> h, w |-> newOverrideWalkerV2(o)], tag, r, 1))

\* Overrider.Override (service_test.go 429) of the Overrider whose original
\* is at address r: the memory it leaves and the Element it returns. c is
\* the copy.
applyToCopy(c, tag, o) == applyOverride(c.h, tag, c.root, o)
OverrideV2(h, tag, r, o) == applyToCopy(Copy(h, r), tag, o)

\* sectionWalker (service_test.go 1076-1135) over the struct cell r, then
\* sectionsMap: a one-element list for a section that is a struct or a
\* pointer to one, and for a slice one element per slice element, sorted by
\* element id (sort.Sort of so few elements is an insertion sort, which
\* keeps the order of equal ids).
LessStr(a, b) == \E i \in 1..Len(b) :
    /\ \A j \in 1..(i - 1) : j <= Len(a) /\ a[j] = b[j]
    /\ (i > Len(a) \/ (CHOOSE d \in 1..Len(CharOrder) : CharOrder[d] = a[i])
                        < (CHOOSE d \in 1..Len(CharOrder) : CharOrder[d] = b[i]))

RECURSIVE insertSorted(_, _)
insertSorted(sorted, e) ==
    IF sorted = <<>> THEN <<e>>
    ELSE IF LessStr(e.element, sorted[Len(sorted)].element)
    THEN Append(insertSorted(SubSeq(sorted, 1, Len(sorted) - 1), e), sorted[Len(sorted)])
    ELSE Append(sorted, e)

RECURSIVE sortSection(_, _)
sortSection(es, n) == IF n = 0 THEN <<>> ELSE insertSorted(sortSection(es, n - 1), es[n])

SectionsV2(h, tag, r) ==
    LET fs == TypeFields[h[r].type]
        idx == {i \in 1..Len(fs) : getSectionNameV2(fs[i]).ok}
        v(i) == h[r].v[fs[i].name]
        keyOk(i) == LET k == findFieldByElementKey(fs[i].type, getElementKey(fs[i]), tag)
                    IN  k # 0 /\ TypeFields[fs[i].type][k].kind = "string"
        keyOf(i) == TypeFields[fs[i].type][findFieldByElementKey(fs[i].type, getElementKey(fs[i]), tag)].name
        bad == {i \in idx : fs[i].kind = "slice" /\ v(i).len > 0 /\ ~keyOk(i)}
        has == {i \in idx : \/ fs[i].kind = "struct"
                            \/ fs[i].kind = "ptr" /\ v(i).ptr # 0
                            \/ fs[i].kind = "slice" /\ v(i).len > 0}
        last(n) == CHOOSE i \in has : /\ getSectionNameV2(fs[i]).name = n
                                      /\ \A j \in has : getSectionNameV2(fs[j]).name = n => j <= i
        elems(i) == IF fs[i].kind = "slice"
                    THEN sortSection([j \in 1..v(i).len |->
                                        [element |-> h[v(i).arr].v[j][keyOf(i)].s,
                                         value |-> h[v(i).arr].v[j]]], v(i).len)
                    ELSE <<[element |-> <<>>,
                            value |-> IF fs[i].kind = "ptr" THEN h[v(i).ptr].v ELSE v(i)]>>
    IN  IF bad # {} THEN [err |-> "failed to read sections", sections |-> NoValue]
        ELSE [err |-> "",
              sections |-> [n \in {getSectionNameV2(fs[i]).name : i \in has} |-> elems(last(n))]]

\* Overrider.OverrideAll: every override in turn on one copy, then the
\* sections of the copy. a is the memory and the error so far.
applied(a) ==
    [h |-> a.h,
     err |-> IF a.el.err # "" THEN "failed to override configuration section/element" ELSE ""]

RECURSIVE applyAll(_, _, _, _, _)
applyAll(a, tag, r, os, i) ==
    IF i > Len(os) \/ a.err # "" THEN a
    ELSE applyAll(applied(applyOverride(a.h, tag, r, os[i])), tag, r, os, i + 1)

withSections(h, s) == [h |-> h, err |-> s.err, sections |-> s.sections]
sectionsOfCopy(a, tag, root) ==
    IF a.err # "" THEN [h |-> a.h, err |-> a.err, sections |-> NoValue]
    ELSE withSections(a.h, SectionsV2(a.h, tag, root))
overrideAllOnCopy(c, tag, os) ==
    sectionsOfCopy(applyAll([h |-> c.h, err |-> ""], tag, c.root, os, 1), tag, c.root)
OverrideAll(h, tag, r, os) == overrideAllOnCopy(Copy(h, r), tag, os)

\* ------------------------------------------------------------ config service

\* Bounds of the model.
MaxReqs == 2      \* POST requests a run issues
ChanCap == 1      \* capacity of the update channel its creator chose
NHandlers == 2    \* POST handlers that can be in flight together

Handlers == 1..NHandlers

VARIABLES
    store,      \* Service.overrides: the override records, id -> option map
    updates,    \* Service.updates: the messages buffered in the channel
    closed,     \* whether Close has closed the update channel
    hs,         \* the POST handlers (handleUpdateSection), one per goroutine
    getResp,    \* the reply of the client's GET /config since its last POST
    nreq,       \* POST requests issued so far
    published   \* every message sent on the update channel, in order

svars == <<store, updates, closed, hs, getResp, nreq, published>>

\* The configuration the service is built from (service_test.go,
\* TestService_GetConfig), read with TomlFieldName.
ServiceType == "TestConfig"
ServiceTag == "toml"
ServiceConfig ==
    [SectionA |-> [Option1 |-> Str(<<"o", "1">>)],
     SectionB |-> [Option2 |-> Str(<<"o", "2">>), Password |-> Str(<<>>)]]

\* An empty option map.
NoOptions == NoValue

\* OverrideDAO over the storage namespace: Get of an absent id is
\* ErrNoOverrideExists, Set puts the record under its id, List yields every
\* record.
daoGet(st, id) ==
    IF id \in DOMAIN st THEN [err |-> "", o |-> [ID |-> id, Overrides |-> st[id]]]
    ELSE [err |-> "ErrNoOverrideExists", o |-> [ID |-> id, Overrides |-> NoOptions]]
\* A Set that removes the record whose option map is empty.
daoSetOrRemove(st, o) ==
    [id \in (DOMAIN st \cup {o.ID}) \ (IF o.Overrides = NoOptions THEN {o.ID} ELSE {}) |->
        IF id = o.ID THEN o.Overrides ELSE st[id]]
daoSet(st, o) == [id \in DOMAIN st \cup {o.ID} |-> IF id = o.ID THEN o.Overrides ELSE st[id]]
daoList(st) == {[ID |-> id, Overrides |-> st[id]] : id \in DOMAIN st}

\* A merge that puts the action's sets in place of the record read.
replaceRecord(o, ua) ==
    [o EXCEPT !.Overrides = [k \in DOMAIN ua.set \ ua.delete |-> ua.set[k]]]


\* A merge that writes the sets and leaves out the deletes.
mergeSetsOnly(o, ua) ==
    [o EXCEPT !.Overrides =
        [k \in DOMAIN o.Overrides \cup DOMAIN ua.set |->
            IF k \in DOMAIN ua.set THEN ua.set[k] ELSE o.Overrides[k]]]


\* applyUpdateAction after its Get: the sets, then the deletes, on the
\* record read (or on a new empty record).
mergeUpdateAction(o, ua) ==
    LET afterSet == [k \in DOMAIN o.Overrides \cup DOMAIN ua.set |->
                        IF k \in DOMAIN ua.set THEN ua.set[k] ELSE o.Overrides[k]]
    IN  [o EXCEPT !.Overrides = [k \in DOMAIN afterSet \ ua.delete |-> afterSet[k]]]

\* getConfig, once every section has been resolved: the first error, or
\* the redacted options of every section.
redactSections(resolved) ==
    IF \E n \in DOMAIN resolved : resolved[n].err # ""
    THEN [err |-> "failed to override section", config |-> NoValue]
    ELSE [err |-> "", config |-> [n \in DOMAIN resolved |-> Redacted(ServiceTag, resolved[n])]]

\* getConfig over the sections of the Overrider: a section with a stored
\* record is resolved with the record's overrides.
resolveSections(st, sections) ==
    redactSections([n \in DOMAIN sections |->
                      IF n \in DOMAIN st
                      THEN Override(ServiceTag, ServiceType, ServiceConfig, n, st[n])
                      ELSE [err |-> "", type |-> sections[n].type,
                            section |-> sections[n].section]])

\* getConfig: the stored overrides laid over every section, redacted.
getConfig(st) == resolveSections(st, Sections(ServiceType, ServiceConfig))

NoResp == [code |-> 0, config |-> NoValue, fault |-> "none"]
NoMsg == [Name |-> "", NewConfig |-> NoValue]
IdleHandler ==
    [pc |-> "idle", section |-> "", ua |-> [ok |-> TRUE, set |-> NoOptions, delete |-> {}],
     fault |-> "none", o |-> [ID |-> "", Overrides |-> NoOptions],
     had |-> FALSE, pre |-> NoOptions, stage |-> "", code |-> 0, sent |-> 0, msg |-> NoMsg]

\* handleUpdateSection up to the decoding of the body: path.Base of the URL
\* is never empty, a body that does not decode is answered 400.
Start(h, section, ua, fault) ==
    /\ hs[h].pc \in {"idle", "done"}
    /\ ~closed
    /\ nreq' = nreq + 1
    /\ getResp' = NoResp
    /\ hs' = [hs EXCEPT ![h] =
                IF ua.ok
                THEN [IdleHandler EXCEPT !.pc = "get", !.section = section, !.ua = ua,
                                         !.fault = fault]
                ELSE [IdleHandler EXCEPT !.pc = "done", !.section = section, !.ua = ua,
                                         !.stage = "decode", !.code = 400]]
    /\ UNCHANGED <<store, updates, closed, published>>

\* applyUpdateAction once Get has answered r: 400 on an error other than
\* ErrNoOverrideExists, else the record with the action merged into it.
merged(hd, r) ==
    IF hd.fault = "get"
    THEN [hd EXCEPT !.pc = "done", !.stage = "get", !.code = 400]
    ELSE [hd EXCEPT !.pc = "set", !.o = mergeUpdateAction(r.o, hd.ua),
                    !.had = (r.err = ""), !.pre = r.o.Overrides]

\* applyUpdateAction: s.overrides.Get and the merge of the action into the
\* record.
Get(h) ==
    /\ hs[h].pc = "get"
    /\ hs' = [hs EXCEPT ![h] = merged(@, daoGet(store, hs[h].section))]
    /\ UNCHANGED <<store, updates, closed, getResp, nreq, published>>

\* A handler that sends the section with its redact-tagged fields redacted.
resolvedView(hd, r) ==
    IF r.err # ""
    THEN [hd EXCEPT !.pc = "done", !.stage = "resolve", !.code = 400]
    ELSE [hd EXCEPT !.pc = "send",
                    !.msg = [Name |-> hd.section,
                             NewConfig |->
                                 [n \in DOMAIN r.section |->
                                     getRedactedValue(
                                         CHOOSE f \in {TypeFields[r.type][i] :
                                                          i \in 1..Len(TypeFields[r.type])} :
                                             f.name = n,
                                         r.section[n])]]]


\* handleUpdateSection once the Overrider has answered r: 400 on an error,
\* else the update to send.
resolved(hd, r) ==
    IF r.err # ""
    THEN [hd EXCEPT !.pc = "done", !.stage = "resolve", !.code = 400]
    ELSE [hd EXCEPT !.pc = "send", !.msg = [Name |-> hd.section, NewConfig |-> r.section]]

\* applyUpdateAction: s.overrides.Set; then handleUpdateSection resolves the
\* merged overrides with the Overrider.
Set(h) ==
    /\ hs[h].pc = "set"
    /\ IF hs[h].fault = "set"
       THEN /\ hs' = [hs EXCEPT ![h] = [@ EXCEPT !.pc = "done", !.stage = "set", !.code = 400]]
            /\ UNCHANGED store
       ELSE /\ store' = daoSet(store, hs[h].o)
            /\ hs' = [hs EXCEPT ![h] =
                        resolved(@, Override(ServiceTag, ServiceType, ServiceConfig,
                                             hs[h].section, hs[h].o.Overrides))]
    /\ UNCHANGED <<updates, closed, getResp, nreq, published>>

\* handleUpdateSection: s.updates <- cu, then 204. A send on a closed channel
\* panics; a send on a full channel waits.
Send(h) ==
    /\ hs[h].pc = "send"
    /\ IF closed
       THEN /\ hs' = [hs EXCEPT ![h] = [@ EXCEPT !.pc = "panicked", !.stage = "send"]]
            /\ UNCHANGED <<updates, published>>
       ELSE /\ Len(updates) < ChanCap
            /\ updates' = Append(updates, hs[h].msg)
            /\ published' = Append(published, hs[h].msg)
            /\ hs' = [hs EXCEPT ![h] = [@ EXCEPT !.pc = "done", !.stage = "sent",
                                                 !.code = 204, !.sent = @ + 1]]
    /\ UNCHANGED <<store, closed, getResp, nreq>>

\* The subscriber takes the next update from the channel.
Recv ==
    /\ updates # <<>>
    /\ updates' = Tail(updates)
    /\ UNCHANGED <<store, closed, hs, getResp, nreq, published>>

\* Service.Close: close(s.updates), and the routes are removed.
Close ==
    /\ ~closed
    /\ closed' = TRUE
    /\ UNCHANGED <<store, updates, hs, getResp, nreq, published>>

\* handleGetConfig once getConfig has answered r.
reply(fault, r) ==
    IF fault = "list" \/ r.err # ""
    THEN [code |-> 500, config |-> NoValue, fault |-> fault]
    ELSE [code |-> 200, config |-> r.config, fault |-> fault]

\* handleGetConfig: 500 when getConfig fails, else 200 with the config.
handleGetConfig(fault) ==
    /\ ~closed
    /\ getResp' = reply(fault, getConfig(store))
    /\ UNCHANGED <<store, updates, closed, hs, nreq, published>>

\* --------------------------------------------------------- the Overrider

MaxElems == 3     \* elements of the original's list-valued section
MaxAll == 2       \* overrides in one OverrideAll call

VARIABLES
    heap,       \* the memory the Overrider's original lives in
    given,      \* the tree supplied to New, as it was then
    ret         \* what the last Override or OverrideAll call returned, and
                \* the tree of the copy Override worked on, as the call left it

ovars == <<heap, given, ret>>

\* The alert services that the configuration is handed to.
VARIABLES
    ad,         \* an alert service: its lock, its fields, the goroutine that
                \* calls Update and the goroutines that read the fields
    sm          \* the SMTP service: its configuration, its mailers, its channel

avars == <<ad, sm>>
vars == <<store, updates, closed, hs, getResp, nreq, published, heap, given, ret, ad, sm>>

\* Overrider.original: the address New was given, and the option names it
\* reads (OptionNameFunc = TomlFieldName, as the config service sets it).
original == 1
OverriderTag == "toml"

\* The originals of a run: a Config whose list-valued section holds up to
\* MaxElems elements with ids among a and b.
ElementInputs == {[ID |-> Str(id), Option |-> Str(<<"o">>)] : id \in {<<"a">>, <<"b">>}}
ListInputs == UNION {[1..n -> ElementInputs] : n \in 0..MaxElems}
HeapOf(list) ==
    <<StructCell("Config",
                 [SectionA |-> [Option2 |-> Str(<<"o", "2">>), Password |-> Str(<<>>)],
                  SectionL |-> SliceHdr(IF list = <<>> THEN 0 ELSE 3, Len(list), Len(list)),
                  SectionC |-> Ptr(2),
                  IgnoredField |-> Str(<<"x">>)]),
      StructCell("SectionC", [Option4 |-> Num("int64", 1), Password |-> Str(<<"s">>)]),
      ArrayCell("Element", list)>>

\* The tree reachable from the address r, read out of the memory.
Tree(h, r) ==
    LET fs == TypeFields[h[r].type]
    IN  [n \in {fs[i].name : i \in 1..Len(fs)} |->
            LET f == CHOOSE g \in {fs[i] : i \in 1..Len(fs)} : g.name = n
            IN  Interface(h, Loc(IF f.kind \in {"ptr", "slice"} THEN f.kind ELSE "field",
                                 r, n, 0, f.type))]

NoRet == [op |-> "", req |-> <<>>, el |-> NoElement, sections |-> NoValue, copy |-> NoValue]

OverriderIdle ==
    /\ heap = HeapOf(<<>>)
    /\ given = Tree(heap, original)
    /\ ret = NoRet

OverriderInit ==
    /\ \E list \in ListInputs : heap = HeapOf(list)
    /\ given = Tree(heap, original)
    /\ ret = NoRet

\* The requests of a run.
OptionInputs ==
    {NoOptions,
     [k \in {"option"} |-> Str(<<"n">>)],
     [k \in {"id"} |-> Str(<<"c">>)],
     [k \in {"id", "option"} |-> IF k = "id" THEN Str(<<"a">>) ELSE Str(<<"n">>)],
     [k \in {"option-4"} |-> F64(-2, 1)],
     [k \in {"option-4", "option"} |-> IF k = "option-4" THEN Str(<<"x">>) ELSE Str(<<"n">>)],
     [k \in {"password"} |-> Str(<<"n">>)]}
OverrideInputs ==
    {OverrideReq(s, e, os, d, c) :
        s \in {"section-a", "section-l", "section-c", "section-x", ""},
        e \in {<<>>, <<"a">>, <<"b">>},
        os \in OptionInputs, d \in BOOLEAN, c \in BOOLEAN}
AllInputs ==
    {OverrideReq("section-l", <<>>, [k \in {"id"} |-> Str(<<"c">>)], FALSE, TRUE),
     OverrideReq("section-l", <<"c">>, [k \in {"option"} |-> Str(<<"n">>)], FALSE, FALSE),
     OverrideReq("section-l", <<"a">>, NoOptions, TRUE, FALSE),
     OverrideReq("section-l", <<"c">>, NoOptions, TRUE, FALSE),
     OverrideReq("section-c", <<>>, [k \in {"option-4"} |-> F64(-2, 1)], FALSE, FALSE),
     OverrideReq("section-a", <<>>, [k \in {"password"} |-> Str(<<"n">>)], FALSE, FALSE)}

\* A call of Override. The copy it worked on is garbage once it has
\* returned: the memory that stays is that of the original's cells.
Returned(r, result) ==
    /\ heap' = SubSeq(r.h, 1, Len(heap))
    /\ ret' = result

overrideResult(o, r, c) ==
    [NoRet EXCEPT !.op = "Override", !.req = <<o>>, !.el = r.el, !.copy = Tree(r.h, c)]
overrideAllResult(os, r) ==
    [NoRet EXCEPT !.op = "OverrideAll", !.req = os, !.el = ErrElement(r.err),
                  !.sections = r.sections]

CallOverride(o) ==
    /\ ret = NoRet
    /\ \E r \in {OverrideV2(heap, OverriderTag, original, o)} :
          Returned(r, overrideResult(o, r, Copy(heap, original).root))
    /\ UNCHANGED given

\* A call of OverrideAll.
CallOverrideAll(os) ==
    /\ ret = NoRet
    /\ \E r \in {OverrideAll(heap, OverriderTag, original, os)} :
          Returned(r, overrideAllResult(os, r))
    /\ UNCHANGED given

\* A call of Sections, of both Overriders: part_001 148 and
\* service_test.go 540 walk the original itself.
sectionsResult(v1, v2) ==
    [NoRet EXCEPT !.op = "Sections", !.sections = [v1 |-> v1, v2 |-> v2]]

CallSections ==
    /\ ret = NoRet
    /\ ret' = sectionsResult(Sections(heap[original].type, Tree(heap, original)),
                             SectionsV2(heap, OverriderTag, original))
    /\ UNCHANGED <<heap, given>>

\* The caller is done with what the call returned; the Overrider stays.
Discard ==
    /\ ret # NoRet
    /\ ret' = NoRet
    /\ UNCHANGED <<heap, given>>

OverriderNext ==
    \/ \E o \in OverrideInputs : CallOverride(o) /\ UNCHANGED <<svars, avars>>
    \/ \E os \in UNION {[1..n -> AllInputs] : n \in 0..MaxAll} :
          CallOverrideAll(os) /\ UNCHANGED <<svars, avars>>
    \/ CallSections /\ UNCHANGED <<svars, avars>>
    \/ Discard /\ UNCHANGED <<svars, avars>>

\* The requests of a run: the section of the path and the decoded body, a
\* body being {"set": {k: v}, "delete": [k]} with at most one key each, or
\* text that does not decode.
SectionInputs == {"section-a", "section-b", "section-x"}
KeyInputs == {"option-1", "password"}
ValueInputs == {Str(<<"n">>), Str(<<>>), F64(1, 0)}
SetInputs == {NoOptions} \cup {[k \in {key} |-> v] : key \in KeyInputs, v \in ValueInputs}
DeleteInputs == {{}} \cup {{k} : k \in KeyInputs}
BodyInputs ==
    {[ok |-> TRUE, set |-> s, delete |-> d] : s \in SetInputs, d \in DeleteInputs}
    \cup {[ok |-> FALSE, set |-> NoOptions, delete |-> {}]}
FaultInputs == {"none"}

\* ------------------------------------------------- the alert services

MaxUpdates == 2     \* calls of Update in a run
NReaders == 2       \* goroutines that read the service's fields

\* The services modelled: slack and pagerduty, whose every read is under
\* RLock, and opsgenie, whose Global reads s.global with no lock.
AdapterKinds == {"slack", "pagerduty", "opsgenie"}

\* A Config of the service's package all of whose fields hold v, and a value
\* of another type. The fields Update assigns, in the order of its
\* assignments: key is the channel, the service key or the API key. No
\* Update assigns enabled, which NewService of opsgenie (and of sensu) takes
\* from the Config.
AdapterConfig(v) == [key |-> v, url |-> v, global |-> v, enabled |-> v]
OtherConfig == [other |-> 0]
FieldOrder == <<"key", "url", "global">>

\* Update's two checks of newConfig: the error it returns, "" when it goes
\* on.
checkLength(nc) ==
    IF Len(nc) # 1 THEN "expected only one new config object" ELSE ""

updateCheck(nc) ==
    IF Len(nc) # 1 THEN "expected only one new config object"
    ELSE IF DOMAIN nc[1] # DOMAIN AdapterConfig(0) THEN "expected config object to be of type Config"
    ELSE ""

\* c, ok := newConfig[0].(Config): the zero Config when the value is of
\* another type.
asConfig(x) == IF DOMAIN x = DOMAIN AdapterConfig(0) THEN x ELSE AdapterConfig(0)

\* NewService(c) with the Config 1: nobody holds the lock. up is the
\* goroutine that calls Update: where it is, the list it passed, the Config
\* c of the type assertion, the error returned and the calls made.
IdleReader == [pc |-> "idle", op |-> "", held |-> FALSE, j |-> 0, seen |-> NoValue]
AdapterIdle(kind) ==
    [kind |-> kind, w |-> FALSE, r |-> 0, f |-> AdapterConfig(1),
     up |-> [pc |-> "idle", arg |-> <<AdapterConfig(1)>>, c |-> AdapterConfig(0), i |-> 0,
             err |-> "", n |-> 0],
     rd |-> [i \in 1..NReaders |-> IdleReader]]

\* Service.Update(newConfig) up to s.mu.Lock().
Update(nc) ==
    /\ ad.up.pc \in {"idle", "done"}
    /\ ad.up.n < MaxUpdates
    /\ ad' = [ad EXCEPT !.up =
                IF updateCheck(nc) # ""
                THEN [@ EXCEPT !.pc = "done", !.arg = nc, !.err = updateCheck(nc), !.n = @ + 1]
                ELSE [@ EXCEPT !.pc = "lock", !.arg = nc, !.c = asConfig(nc[1]), !.err = "",
                               !.n = @ + 1]]

\* Update from s.mu.Lock() to its return: the lock is taken when no
\* goroutine holds it, the fields are assigned one after the other, and the
\* lock is released.
UpdateStep ==
    \/ /\ ad.up.pc = "lock" /\ ~ad.w /\ ad.r = 0
       /\ ad' = [ad EXCEPT !.w = TRUE, !.up.pc = "write", !.up.i = 1]
    \/ /\ ad.up.pc = "write"
       /\ ad' = [ad EXCEPT !.f[FieldOrder[ad.up.i]] = ad.up.c[FieldOrder[ad.up.i]],
                           !.up.i = (@ + 1) % (Len(FieldOrder) + 1),
                           !.up.pc = IF ad.up.i = Len(FieldOrder) THEN "unlock" ELSE "write"]
    \/ /\ ad.up.pc = "unlock"
       /\ ad' = [ad EXCEPT !.w = FALSE, !.up.pc = "done"]

\* The fields a reading method reads, in order: preparePost reads the key
\* and the url, after the enabled flag in opsgenie; Global reads global.
\* And whether the method takes RLock: all do but opsgenie's Global.
ReadFields(kind, op) ==
    IF op = "Global" THEN <<"global">>
    ELSE IF kind = "opsgenie" THEN <<"enabled", "key", "url">>
    ELSE <<"key", "url">>
takesRLock(kind, op) == ~(kind = "opsgenie" /\ op = "Global")

\* A goroutine calls preparePost (from Alert) or Global.
Call(i, op) ==
    /\ ad.rd[i].pc \in {"idle", "done"}
    /\ ad' = [ad EXCEPT !.rd[i] =
                [IdleReader EXCEPT !.pc = IF takesRLock(ad.kind, op) THEN "rlock" ELSE "read",
                                   !.op = op, !.j = 1]]

\* The method's steps: s.mu.RLock(), granted while no writer holds the
\* lock; the read of the next field; s.mu.RUnlock(). A read made without
\* the lock while Update is assigning the fields races with the assignment:
\* it yields the field's old value or the one being assigned.
ReadStep(i) ==
    \/ /\ ad.rd[i].pc = "rlock" /\ ~ad.w
       /\ ad' = [ad EXCEPT !.r = @ + 1, !.rd[i].held = TRUE, !.rd[i].pc = "read"]
    \/ /\ ad.rd[i].pc = "read"
       /\ \E v \in {ad.f[ReadFields(ad.kind, ad.rd[i].op)[ad.rd[i].j]]}
                   \cup (IF ad.w /\ ~ad.rd[i].held
                         THEN {ad.up.c[ReadFields(ad.kind, ad.rd[i].op)[ad.rd[i].j]]} ELSE {}) :
             ad' = [ad EXCEPT !.rd[i].seen = @ @@ (ReadFields(ad.kind, ad.rd[i].op)[ad.rd[i].j] :> v),
                              !.rd[i].j = @ + 1,
                              !.rd[i].pc = IF ad.rd[i].j < Len(ReadFields(ad.kind, ad.rd[i].op)) THEN "read"
                                           ELSE IF ad.rd[i].held THEN "runlock" ELSE "done"]
    \/ /\ ad.rd[i].pc = "runlock"
       /\ ad' = [ad EXCEPT !.r = @ - 1, !.rd[i].held = FALSE, !.rd[i].pc = "done"]

\* ---------------------------------------------------- the SMTP service

MaxSmtp == 3        \* calls of the SMTP service's Update in a run

\* The two texts of the SMTP service: services/smtp/service.go, and
\* part_003, which keeps a running flag and returns the idle timeout from
\* dialer().
SmtpImpls == {"service.go", "part_003"}

\* An smtp.Config: whether it is enabled, whether From is non-empty, and v
\* for all its other fields (Host, Port, ..., IdleTimeout).
SmtpConfig(en, from, v) == [Enabled |-> en, From |-> from, v |-> v]

\* NewService(c): no goroutine runs runMailer. ms are the runMailer
\* goroutines: where each is, the Config its dialer d was made from and the
\* Config its idleTimeout was read from. up is the goroutine that calls
\* Update, snd one that calls SendMail, cl where the call of Close is:
\* s.mail is closed and s.mu is held by Close from the moment cl is "wait".
smtpNew(impl, c) ==
    [impl |-> impl, opened |-> FALSE, c |-> c, running |-> FALSE, ms |-> <<>>,
     up |-> [pc |-> "idle", err |-> "", n |-> 0],
     snd |-> [pc |-> "idle", err |-> ""],
     cl |-> "idle"]

\* go s.runMailer()
newMailer == [pc |-> "init", d |-> 0, t |-> 0]

\* Service.Open: starts runMailer when the Config is enabled.
smtpOpen ==
    /\ ~sm.opened
    /\ sm' = [sm EXCEPT !.opened = TRUE,
                        !.ms = IF sm.c.Enabled THEN Append(@, newMailer) ELSE @]

\* Service.Update(newConfig) up to its send on s.mail, for a list nc that
\* passed the two tests: the Config is replaced under the lock; service.go
\* then starts runMailer when the service went from disabled to enabled,
\* unless From is empty, and goes on to send nil; part_003 starts runMailer
\* under the lock unless running is set, and goes on to send only when the
\* new Config is enabled.
updated(s, c) ==
    IF s.impl = "service.go"
    THEN IF ~s.c.Enabled /\ c.Enabled /\ ~c.From
         THEN [s EXCEPT !.c = c, !.up.pc = "done",
                        !.up.err = "cannot open smtp service: missing from address"]
         ELSE [s EXCEPT !.c = c, !.up.pc = "send", !.up.err = "",
                        !.ms = IF ~s.c.Enabled /\ c.Enabled THEN Append(@, newMailer) ELSE @]
    ELSE [s EXCEPT !.c = c, !.up.pc = IF c.Enabled THEN "send" ELSE "done", !.up.err = "",
                   !.ms = IF ~s.running /\ ~s.c.Enabled /\ c.Enabled
                          THEN Append(@, newMailer) ELSE @,
                   !.running = @ \/ (~s.c.Enabled /\ c.Enabled)]

\* Service.Update(newConfig) up to its send on s.mail.
smtpUpdate(nc) ==
    /\ sm.opened /\ sm.cl = "idle"
    /\ sm.up.pc \in {"idle", "done"}
    /\ sm.up.n < MaxSmtp
    /\ sm' = IF Len(nc) # 1
             THEN [sm EXCEPT !.up.pc = "done", !.up.n = @ + 1,
                             !.up.err = "expected only one new config object"]
             ELSE IF DOMAIN nc[1] # DOMAIN sm.c
             THEN [sm EXCEPT !.up.pc = "done", !.up.n = @ + 1,
                             !.up.err = "expected config object to be of type Config"]
             ELSE updated([sm EXCEPT !.up.n = @ + 1], nc[1])

\* Service.SendMail up to its send on s.mail: prepareMessge refuses when
\* the service is not enabled.
SendMail ==
    /\ sm.opened /\ sm.cl = "idle"
    /\ sm.snd.pc \in {"idle", "done"}
    /\ sm' = [sm EXCEPT !.snd = IF sm.c.Enabled THEN [pc |-> "send", err |-> ""]
                                ELSE [pc |-> "done", err |-> "service not enabled"]]

\* runMailer outside its select: d := s.dialer() under RLock, and the idle
\* timeout, which service.go reads in a step of its own (with no lock when
\* it starts, under a second RLock after a nil message) and part_003 reads
\* within dialer(); and the return of d.Dial and gomail.Send. The RLock
\* is not granted while Close holds s.mu: the only read without it is
\* service.go's first read of the idle timeout.
runMailer(k) ==
    /\ sm.ms[k].pc \in {"init", "redial", "timeout", "busy"}
    /\ sm.cl = "wait" => \/ sm.ms[k].pc = "busy"
                         \/ sm.ms[k].pc = "timeout" /\ sm.ms[k].t = 0
    /\ sm' = [sm EXCEPT !.ms[k] =
                CASE @.pc \in {"init", "redial"} /\ sm.impl = "service.go" ->
                        [@ EXCEPT !.pc = "timeout", !.d = sm.c.v]
                  [] @.pc \in {"init", "redial"} /\ sm.impl # "service.go" ->
                        [@ EXCEPT !.pc = "select", !.d = sm.c.v, !.t = sm.c.v]
                  [] @.pc = "timeout" -> [@ EXCEPT !.pc = "select", !.t = sm.c.v]
                  [] @.pc = "busy" -> [@ EXCEPT !.pc = "select"]]

\* runMailer's receive from s.mail in its select, from Update: the sender
\* goes on and returns, the mailer goes to make a new dialer.
recvUpdate(k) ==
    /\ sm.ms[k].pc = "select" /\ sm.up.pc = "send"
    /\ sm' = [sm EXCEPT !.ms[k].pc = "redial", !.up.pc = "done"]

\* runMailer's receive from s.mail in its select, from SendMail: the mailer
\* goes to dial and send.
recvMail(k) ==
    /\ sm.ms[k].pc = "select" /\ sm.snd.pc = "send"
    /\ sm' = [sm EXCEPT !.ms[k].pc = "busy", !.snd.pc = "done"]

\* Service.Close up to its s.wg.Wait(): it takes s.mu and closes s.mail.
\* It is called once, when no call of Update or SendMail is under way, and
\* none is made after it: a send on the closed channel panics.
smtpClose ==
    /\ sm.opened /\ sm.cl = "idle"
    /\ sm.up.pc \in {"idle", "done"} /\ sm.snd.pc \in {"idle", "done"}
    /\ sm' = [sm EXCEPT !.cl = "wait"]

\* runMailer's receive from the closed s.mail in its select: it returns,
\* and its deferred s.wg.Done() runs.
mailerExit(k) ==
    /\ sm.ms[k].pc = "select" /\ sm.cl # "idle"
    /\ sm' = [sm EXCEPT !.ms[k].pc = "exit"]

\* Service.Close from its s.wg.Wait(): every runMailer has returned; it
\* releases s.mu and returns.
closeReturn ==
    /\ sm.cl = "wait"
    /\ \A k \in 1..Len(sm.ms) : sm.ms[k].pc = "exit"
    /\ sm' = [sm EXCEPT !.cl = "done"]

SmtpIdle == smtpNew("service.go", SmtpConfig(FALSE, TRUE, 1))

AdaptersIdle == ad = AdapterIdle("slack") /\ sm = SmtpIdle


ServiceInit ==
    /\ store = NoValue
    /\ updates = <<>>
    /\ closed = FALSE
    /\ hs = [h \in Handlers |-> IdleHandler]
    /\ getResp = NoResp
    /\ nreq = 0
    /\ published = <<>>

Init == ServiceInit /\ OverriderIdle /\ AdaptersIdle

\* One client: requests are issued one after the other, each when the one
\* before it has been answered, and the service is closed between requests.
Post ==
    /\ nreq < MaxReqs
    /\ \E s \in SectionInputs, ua \in BodyInputs, f \in FaultInputs : Start(1, s, ua, f)
GetConfig == \E f \in {"none"} :
    /\ hs[1].pc \in {"idle", "done"}
    /\ handleGetConfig(f)
Shutdown == hs[1].pc \in {"idle", "done"} /\ Close

Next ==
    \/ Post /\ UNCHANGED <<ovars, avars>>
    \/ Get(1) /\ UNCHANGED <<ovars, avars>>
    \/ Set(1) /\ UNCHANGED <<ovars, avars>>
    \/ Send(1) /\ UNCHANGED <<ovars, avars>>
    \/ Recv /\ UNCHANGED <<ovars, avars>>
    \/ GetConfig /\ UNCHANGED <<ovars, avars>>
    \/ Shutdown /\ UNCHANGED <<ovars, avars>>

Spec == Init /\ [][Next]_vars

\* Several clients: the HTTP server runs every request in a goroutine of its
\* own, so the steps of the POST handlers interleave with each other, with
\* the subscriber and with Close.
ConcSections == {"section-a"}
ConcBodies ==
    {[ok |-> TRUE, set |-> [k \in {"option-1"} |-> Str(<<"n">>)], delete |-> {}],
     [ok |-> TRUE, set |-> [k \in {"option-1"} |-> Str(<<"m">>)], delete |-> {}],
     [ok |-> TRUE, set |-> NoOptions, delete |-> {"option-1"}]}
ConcPost ==
    /\ nreq < MaxReqs
    /\ \E h \in Handlers, s \in ConcSections, ua \in ConcBodies : Start(h, s, ua, "none")
ConcGet == \E h \in Handlers : Get(h)
ConcSet == \E h \in Handlers : Set(h)
ConcSend == \E h \in Handlers : Send(h)

ConcNext ==
    \/ ConcPost /\ UNCHANGED <<ovars, avars>>
    \/ ConcGet /\ UNCHANGED <<ovars, avars>>
    \/ ConcSet /\ UNCHANGED <<ovars, avars>>
    \/ ConcSend /\ UNCHANGED <<ovars, avars>>
    \/ Recv /\ UNCHANGED <<ovars, avars>>
    \/ Close /\ UNCHANGED <<ovars, avars>>

ConcSpec == Init /\ [][ConcNext]_vars

\* One client that works on one option of two sections, for MaxTrip
\* requests.
MaxTrip == 3
TripSections == {"section-a", "section-b"}
TripBodies ==
    {[ok |-> TRUE, set |-> [k \in {"option-1"} |-> Str(<<"n">>)], delete |-> {}],
     [ok |-> TRUE, set |-> NoOptions, delete |-> {"option-1"}]}
TripPost ==
    /\ nreq < MaxTrip
    /\ \E s \in TripSections, ua \in TripBodies : Start(1, s, ua, "none")

TripNext ==
    \/ TripPost /\ UNCHANGED <<ovars, avars>>
    \/ Get(1) /\ UNCHANGED <<ovars, avars>>
    \/ Set(1) /\ UNCHANGED <<ovars, avars>>
    \/ Send(1) /\ UNCHANGED <<ovars, avars>>
    \/ Recv /\ UNCHANGED <<ovars, avars>>
    \/ GetConfig /\ UNCHANGED <<ovars, avars>>

TripSpec == Init /\ [][TripNext]_vars

\* The Overrider on its own: the service stays as constructed.
OverriderStart == ServiceInit /\ OverriderInit /\ AdaptersIdle
OverriderSpec == OverriderStart /\ [][OverriderNext]_vars

\* The override store fails: Get and Set of a POST, List of a GET, answer an
\* error of the underlying storage. One client, one option of one section.
StoreFaults == {"none", "get", "set"}
FaultPost ==
    /\ nreq < MaxReqs
    /\ \E ua \in TripBodies, f \in StoreFaults : Start(1, "section-a", ua, f)
FaultGetConfig == \E f \in {"none", "list"} :
    /\ hs[1].pc \in {"idle", "done"}
    /\ handleGetConfig(f)

FaultNext ==
    \/ FaultPost /\ UNCHANGED <<ovars, avars>>
    \/ Get(1) /\ UNCHANGED <<ovars, avars>>
    \/ Set(1) /\ UNCHANGED <<ovars, avars>>
    \/ Send(1) /\ UNCHANGED <<ovars, avars>>
    \/ Recv /\ UNCHANGED <<ovars, avars>>
    \/ FaultGetConfig /\ UNCHANGED <<ovars, avars>>

FaultSpec == Init /\ [][FaultNext]_vars

\* Numeric coercion (override_test.go, TestOverrider_Override): one option
\* of SectionNums is overridden with a source value, through both Override
\* functions, on an Overrider that reads the override tag and holds the zero
\* NumConfig. A source is a value its kind can hold, or a string.
NumTag == "override"
NumOriginal == [SectionNums |-> ZeroStruct("SectionNums")]
NumHeap == <<StructCell("NumConfig", NumOriginal)>>
NumSources ==
    {Num(k, 42) : k \in IntKinds \cup UintKinds}
    \cup {Num(k, 300) : k \in (IntKinds \cup UintKinds) \ {"int8", "uint8"}}
    \cup {Num(k, -1) : k \in IntKinds}
    \cup {Val(k, <<>>, n, hh) : k \in FloatKinds, n \in {42, -1}, hh \in {0, 1}}
    \cup {Str(s) : s \in {<<"4", "2">>, <<"-", "1">>, <<"4", "2", ".", "5">>, <<"x">>, <<>>}}
NumFields == {TypeFields.SectionNums[i] : i \in 1..Len(TypeFields.SectionNums)}

numResult(o, v2, v1) ==
    [NoRet EXCEPT !.op = "Nums", !.req = <<o>>, !.el = v2.el, !.sections = v1]

CallNums(src, f) ==
    /\ ret = NoRet
    /\ ret' = numResult(OverrideReq("section-nums", <<>>, [k \in {f.name} |-> src], FALSE, FALSE),
                        OverrideV2(NumHeap, NumTag, 1,
                                   OverrideReq("section-nums", <<>>, [k \in {f.name} |-> src],
                                               FALSE, FALSE)),
                        Override(NumTag, "NumConfig", NumOriginal, "section-nums",
                                 [k \in {f.name} |-> src]))
    /\ UNCHANGED <<heap, given>>

NumNext ==
    \/ \E src \in NumSources, f \in NumFields : CallNums(src, f) /\ UNCHANGED <<svars, avars>>
    \/ Discard /\ UNCHANGED <<svars, avars>>

NumSpec == Init /\ [][NumNext]_vars

\* An alert service of one of the kinds, one goroutine that calls Update
\* with lists of up to two values, and the goroutines that read.
NewConfigInputs ==
    UNION {[1..n -> {AdapterConfig(2), AdapterConfig(3), OtherConfig}] : n \in 0..2}
AdapterInit ==
    /\ ServiceInit /\ OverriderIdle
    /\ \E kind \in AdapterKinds : ad = AdapterIdle(kind)
    /\ sm = SmtpIdle

AdapterNext ==
    \/ \E nc \in NewConfigInputs : Update(nc) /\ UNCHANGED <<svars, ovars, sm>>
    \/ UpdateStep /\ UNCHANGED <<svars, ovars, sm>>
    \/ \E i \in 1..NReaders, op \in {"preparePost", "Global"} :
          Call(i, op) /\ UNCHANGED <<svars, ovars, sm>>
    \/ \E i \in 1..NReaders : ReadStep(i) /\ UNCHANGED <<svars, ovars, sm>>

AdapterSpec == AdapterInit /\ [][AdapterNext]_vars


\* An SMTP service of either text, made with any Config and then opened,
\* one goroutine that calls Update, one that calls SendMail and one call of
\* Close. Every
\* goroutine that can take a step of its own does so in the end, and the
\* goroutines waiting to send on s.mail are served in the order they came,
\* so a mailer that is in its select again and again receives from Update.
SmtpConfigs == {SmtpConfig(en, from, v) : en \in BOOLEAN, from \in BOOLEAN, v \in 1..2}
SmtpInit ==
    /\ ServiceInit /\ OverriderIdle
    /\ ad = AdapterIdle("slack")
    /\ \E impl \in SmtpImpls, c \in SmtpConfigs : sm = smtpNew(impl, c)

SmtpRun == \E k \in 1..Len(sm.ms) : runMailer(k) /\ UNCHANGED <<svars, ovars, ad>>
SmtpRecvUpdate == \E k \in 1..Len(sm.ms) : recvUpdate(k) /\ UNCHANGED <<svars, ovars, ad>>
SmtpExit == \E k \in 1..Len(sm.ms) : mailerExit(k) /\ UNCHANGED <<svars, ovars, ad>>
SmtpCloseReturn == closeReturn /\ UNCHANGED <<svars, ovars, ad>>
SmtpNext ==
    \/ smtpOpen /\ UNCHANGED <<svars, ovars, ad>>
    \/ smtpClose /\ UNCHANGED <<svars, ovars, ad>>
    \/ SmtpExit
    \/ SmtpCloseReturn
    \/ \E nc \in {<<>>, <<OtherConfig>>} \cup {<<c>> : c \in SmtpConfigs} :
          smtpUpdate(nc) /\ UNCHANGED <<svars, ovars, ad>>
    \/ SendMail /\ UNCHANGED <<svars, ovars, ad>>
    \/ SmtpRun
    \/ SmtpRecvUpdate
    \/ \E k \in 1..Len(sm.ms) : recvMail(k) /\ UNCHANGED <<svars, ovars, ad>>

SmtpSpec ==
    /\ SmtpInit /\ [][SmtpNext]_vars /\ WF_vars(SmtpRun) /\ SF_vars(SmtpRecvUpdate)
    /\ WF_vars(SmtpExit) /\ WF_vars(SmtpCloseReturn)


\* Several clients that set options of section-b, each request in a
\* goroutine of its own.
RaceBodies ==
    {[ok |-> TRUE, set |-> [k \in {key} |-> Str(<<"n">>)], delete |-> {}] :
        key \in {"option-2", "password"}}
RacePost ==
    /\ nreq < MaxReqs
    /\ \E h \in Handlers, ua \in RaceBodies : Start(h, "section-b", ua, "none")

RaceNext ==
    \/ RacePost /\ UNCHANGED <<ovars, avars>>
    \/ ConcGet /\ UNCHANGED <<ovars, avars>>
    \/ ConcSet /\ UNCHANGED <<ovars, avars>>
    \/ ConcSend /\ UNCHANGED <<ovars, avars>>
    \/ Recv /\ UNCHANGED <<ovars, avars>>

RaceSpec == Init /\ [][RaceNext]_vars


\* The Overrider of a Config whose section has a field that implements
\* encoding.TextUnmarshaler: Override with every source kind for that field.
TextHeap ==
    <<StructCell("TextConfig",
                 [SectionT |-> [Timeout |-> Num("int64", 1), Option |-> Str(<<"o">>)]])>>
TextOptionInputs ==
    {NoOptions,
     [k \in {"option"} |-> Str(<<"n">>)]}
    \cup {[k \in {"timeout"} |-> v] :
            v \in {Str(<<"2">>), Str(<<"-", "3">>), Str(<<"x">>), Str(<<>>), Str(<<"2", ".", "5">>),
                   Num("int64", 2), F64(2, 0), Nil}}
TextInputs ==
    {OverrideReq(s, e, os, d, FALSE) :
        s \in {"section-t", "section-x", ""}, e \in {<<>>, <<"a">>},
        os \in TextOptionInputs, d \in BOOLEAN}
TextInit ==
    /\ ServiceInit
    /\ heap = TextHeap
    /\ given = Tree(heap, original)
    /\ ret = NoRet
    /\ AdaptersIdle
TextNext ==
    \/ \E o \in TextInputs : CallOverride(o) /\ UNCHANGED <<svars, avars>>
    \/ Discard /\ UNCHANGED <<svars, avars>>
TextSpec == TextInit /\ [][TextNext]_vars


\* ---------------------------------------------------------------------
\* Properties of the Overrider
\* ---------------------------------------------------------------------

\* C1: after any sequence of Override and OverrideAll calls, failed or not,
\* creates and deletes of list elements included, the tree the Overrider
\* holds as its original is deep-equal to the tree New was given.
OriginalNeverModified == Tree(heap, original) = given

\* A delete of an element of a non-empty list section has returned without
\* an error.
OriginalNeverModifiedWitness ==
    /\ ret.op = "Override"
    /\ ret.req[1].Section = "section-l"
    /\ ret.req[1].Delete
    /\ ret.req[1].Element = <<"a">>
    /\ ret.el.err = ""
    /\ Len(given.SectionL) = MaxElems
    /\ given.SectionL[1].ID = Str(<<"a">>)

\* ---------------------------------------------------------------------
\* Properties of the config service
\* ---------------------------------------------------------------------

\* C2: a POST whose resolution fails (undeclared option, coercion failure,
\* validation failure) returns an error, and the stored override record of
\* its section is the same after the request as before it.
FailedResolveLeavesStore ==
    \A h \in Handlers :
        /\ hs[h].pc = "done" /\ hs[h].stage = "resolve"
        /\ hs[h].section \in DOMAIN Sections(ServiceType, ServiceConfig)
        =>  LET r == daoGet(store, hs[h].section)
            IN  /\ hs[h].code = 400
                /\ (r.err = "") = hs[h].had
                /\ r.o.Overrides = hs[h].pre

\* The last message published for the section s.
LastPublished(s) ==
    LET idx == {i \in 1..Len(published) : published[i].Name = s}
    IN  published[CHOOSE i \in idx : \A j \in idx : j <= i]

\* C3: the store-write, resolve and publish steps of concurrent POSTs to one
\* section do not interleave, so once the handlers are done the last update
\* published for a section carries the configuration resolved from the
\* record that is stored for it.
LastPublishedIsStored ==
    (\A h \in Handlers : hs[h].pc \in {"idle", "done"}) =>
        \A s \in DOMAIN store :
            (\E i \in 1..Len(published) : published[i].Name = s) =>
                LastPublished(s).NewConfig =
                    Override(ServiceTag, ServiceType, ServiceConfig, s, store[s]).section

\* C4: in every interleaving of Close with POST handlers in flight, no
\* handler sends on the update channel after Close has closed it.
NoSendAfterClose == \A h \in Handlers : hs[h].pc # "panicked"

\* The value of the section s of the service's configuration with the
\* option map rec laid over it: an option named in rec has rec's value,
\* every other option the original's.
Overlay(s, rec) ==
    LET sf == CHOOSE f \in {TypeFields[ServiceType][i] : i \in 1..Len(TypeFields[ServiceType])} :
                 f.tags[ServiceTag][1].kw = s
        fs == TypeFields[sf.type]
    IN  [n \in {fs[i].name : i \in 1..Len(fs)} |->
            LET key == (CHOOSE f \in {fs[i] : i \in 1..Len(fs)} : f.name = n).tags[ServiceTag][1].kw
            IN  IF key \in DOMAIN rec THEN rec[key] ELSE ServiceConfig[sf.name][n]]

\* C5: a POST emits an update message if and only if it replies 204: a
\* successful POST emits exactly one message, whose Name is the section and
\* whose NewConfig is the section's original value with the stored
\* overrides laid over it; a POST that replies with an error emits none.
UpdateIffNoContent ==
    \A h \in Handlers :
        /\ hs[h].sent <= 1
        /\ hs[h].pc # "done" => hs[h].sent = 0
        /\ hs[h].pc = "done" =>
              /\ hs[h].code \in {204, 400}
              /\ hs[h].code = 204 <=> hs[h].sent = 1
        /\ hs[h].sent = 1 =>
              /\ published # <<>>
              /\ published[Len(published)] =
                    [Name |-> hs[h].section,
                     NewConfig |-> Overlay(hs[h].section, store[hs[h].section])]

\* A second POST to a section has merged its action into the stored record
\* and has been answered 204.
UpdateIffNoContentWitness ==
    /\ hs[1].pc = "done" /\ hs[1].code = 204 /\ hs[1].sent = 1
    /\ hs[1].had /\ hs[1].pre # NoOptions
    /\ hs[1].section = "section-b"
    /\ "password" \in DOMAIN store["section-b"]
    /\ store["section-b"]["password"] = Str(<<"n">>)
    /\ Len(published) = 2

\* What GET /config shows of the service's configuration as it was built:
\* every section, every option, the empty password redacted to false.
OriginalView ==
    [n \in {"section-a", "section-b"} |->
        IF n = "section-a"
        THEN [k \in {"option-1"} |-> Str(<<"o", "1">>)]
        ELSE [k \in {"option-2", "password"} |->
                IF k = "option-2" THEN Str(<<"o", "2">>) ELSE Bool(FALSE)]]

\* C6: for a section with no prior overrides and an option k with original
\* value v, after POST set k=x and then POST delete k, GET /config shows the
\* section with k = v and every other option at its original value.
SetThenDeleteShowsOriginal ==
    \A k \in {"option-1"} :
        /\ hs[1].pc = "done"
        /\ hs[1].ua.set = NoOptions /\ hs[1].ua.delete = {k}
        /\ hs[1].had /\ DOMAIN hs[1].pre = {k}
        /\ getResp.code # 0
        =>  /\ getResp.code = 200
            /\ getResp.config[hs[1].section] = OriginalView[hs[1].section]

\* C7: after any sequence of POSTs, GET /config returns a map with an entry
\* for every declared section, stored record or not, and each entry has a
\* key for every declared option of the section, with redaction applied.
GetShowsEverySection ==
    getResp.code # 0 =>
        /\ getResp.code = 200
        /\ DOMAIN getResp.config = DOMAIN OriginalView
        /\ \A n \in DOMAIN OriginalView :
              /\ DOMAIN getResp.config[n] = DOMAIN OriginalView[n]
              /\ "password" \in DOMAIN getResp.config[n] =>
                    getResp.config[n]["password"] \in {Bool(TRUE), Bool(FALSE)}

\* C10: a POST that fails on its body, on an unknown section, on an unknown
\* option, on validation or on coercion replies 400, and no user input makes
\* a POST or a later GET /config reply 500.
UserInputNever500 ==
    /\ \A h \in Handlers :
          /\ hs[h].pc = "done" /\ hs[h].stage \in {"decode", "resolve"} => hs[h].code = 400
          /\ hs[h].code # 500
    /\ getResp.code # 500

\* The fields of the section s of the service's configuration, and whether
\* a field carries the redact keyword in its override tag.
SectionFields(s) ==
    LET sf == CHOOSE f \in {TypeFields[ServiceType][i] : i \in 1..Len(TypeFields[ServiceType])} :
                 f.tags[ServiceTag][1].kw = s
    IN  {TypeFields[sf.type][i] : i \in 1..Len(TypeFields[sf.type])}
RedactTagged(f) == P(redactKeyword) \in {f.tags[structTagKey][i] : i \in 1..Len(f.tags[structTagKey])}

\* The store, and a section's value, with every non-zero value of a
\* redact-tagged option replaced by the plaintext alt.
AltSecrets == {<<"x">>, <<"y", "z">>}
Scramble(st, alt) ==
    [id \in DOMAIN st |->
        [k \in DOMAIN st[id] |->
            IF /\ id \in DOMAIN OriginalView
               /\ \E f \in SectionFields(id) : f.tags[ServiceTag][1].kw = k /\ RedactTagged(f)
               /\ st[id][k].k = "string" /\ st[id][k].s # <<>>
            THEN Str(alt) ELSE st[id][k]]]
ScrambleSection(s, v, alt) ==
    [n \in DOMAIN v |->
        IF (\E f \in SectionFields(s) : f.name = n /\ RedactTagged(f)) /\ v[n].s # <<>>
        THEN Str(alt) ELSE v[n]]

\* C8: the redacted view depends on a redact-tagged field only through
\* whether it is zero: configurations that differ only in the non-zero
\* values of redact-tagged fields have the same Redacted() maps and the same
\* GET /config bodies, and every redact-tagged field shows as a boolean.
RedactionHidesPlaintext ==
    /\ getResp.code = 200 =>
          /\ \A alt \in AltSecrets : getConfig(Scramble(store, alt)).config = getResp.config
          /\ \A n \in DOMAIN getResp.config : \A f \in SectionFields(n) :
                RedactTagged(f) =>
                    getResp.config[n][f.tags[ServiceTag][1].kw] \in {Bool(TRUE), Bool(FALSE)}
    /\ \A i \in 1..Len(published) : \A alt \in AltSecrets :
          LET s == published[i].Name
              type == Sections(ServiceType, ServiceConfig)[s].type
              v == published[i].NewConfig
          IN  Redacted(ServiceTag, [type |-> type, section |-> ScrambleSection(s, v, alt)])
                  = Redacted(ServiceTag, [type |-> type, section |-> v])

\* GET /config has been answered while a non-empty password is stored, and
\* the section with that password has been published.
RedactionHidesPlaintextWitness ==
    /\ getResp.code = 200
    /\ "section-b" \in DOMAIN store
    /\ "password" \in DOMAIN store["section-b"]
    /\ store["section-b"]["password"] = Str(<<"n">>)
    /\ published # <<>>
    /\ published[Len(published)].NewConfig = [Option2 |-> Str(<<"o", "2">>), Password |-> Str(<<"n">>)]

\* C9: in the redacted map a field not tagged redact maps to its value
\* unchanged; a redact-tagged field maps to true exactly when its value
\* after the overrides is non-zero and to false exactly when it is zero.
RedactedShowsNonZero ==
    getResp.code = 200 =>
        \A n \in DOMAIN getResp.config :
            LET cur == Overlay(n, IF n \in DOMAIN store THEN store[n] ELSE NoOptions)
            IN  \A f \in SectionFields(n) :
                    getResp.config[n][f.tags[ServiceTag][1].kw] =
                        IF RedactTagged(f) THEN Bool(cur[f.name] # Str(<<>>)) ELSE cur[f.name]

\* The password showed false, "n" has been set for it, and it shows true.
RedactedShowsNonZeroWitness ==
    /\ getResp.code = 200
    /\ hs[1].code = 204 /\ hs[1].section = "section-b"
    /\ "password" \notin DOMAIN hs[1].pre
    /\ OriginalView["section-b"]["password"] = Bool(FALSE)
    /\ store["section-b"] = [k \in {"password"} |-> Str(<<"n">>)]
    /\ getResp.config["section-b"]["password"] = Bool(TRUE)
    /\ getResp.config["section-b"]["option-2"] = Str(<<"o", "2">>)

\* C11: when Get, Set or List of the override store fails with an error
\* other than "no override exists", the request that triggered it (POST
\* /config/<section> or GET /config) replies 500, not 400.
StoreFailureReplies500 ==
    /\ \A h \in Handlers :
          hs[h].pc = "done" /\ hs[h].stage \in {"get", "set"} => hs[h].code = 500
    /\ getResp.fault = "list" => getResp.code = 500

FortyTwo(k) == Val(k, <<>>, 42, 0)
IsFortyTwo(src) == src = Str(<<"4", "2">>) \/ (isNumericKind(src.k) /\ src = FortyTwo(src.k))

\* C13: for every source among the twelve numeric kinds and the string
\* "42", and every option field of each of the twelve numeric kinds,
\* overriding the field with the source 42 succeeds and the field holds 42
\* of the field's own kind.
NumericCoercionClosure ==
    \A f \in NumFields :
        /\ ret.op = "Nums"
        /\ DOMAIN ret.req[1].Options = {f.name}
        /\ IsFortyTwo(ret.req[1].Options[f.name])
        =>  /\ ret.el.err = ""
            /\ ret.el.value = [NumOriginal.SectionNums EXCEPT ![f.name] = FortyTwo(f.kind)]
            /\ ret.sections.err = ""
            /\ ret.sections.section = [NumOriginal.SectionNums EXCEPT ![f.name] = FortyTwo(f.kind)]

\* A float64 42 has been laid over the uint8 field, and holds as uint8 42.
NumericCoercionClosureWitness ==
    /\ ret.op = "Nums"
    /\ ret.req[1].Options = [k \in {"Uint8"} |-> F64(42, 0)]
    /\ ret.el.err = ""
    /\ ret.el.value.Uint8 = Num("uint8", 42)
    /\ ret.sections.section.Uint8 = Num("uint8", 42)

\* ---------------------------------------------------------------------
\* Properties of Override's errors
\* ---------------------------------------------------------------------

\* The option names of the section a request targets: those of the fields
\* of the section's struct, or of its elements' struct; none when no
\* top-level field has the section's name. And the structs the request's
\* options are laid over: of a list, the element it creates (0) and every
\* element when the request names none, else those with the requested id;
\* the struct of a singleton section (0) when the request names no element.
TargetOptionNames(o) ==
    UNION {{optionNameFunc(OverriderTag, TypeFields[f.type][i]) : i \in 1..Len(TypeFields[f.type])} :
              f \in {g \in {TypeFields.Config[j] : j \in 1..Len(TypeFields.Config)} :
                        getSectionNameV2(g).ok /\ getSectionNameV2(g).name = o.Section}}
UnknownKeys(o) == DOMAIN o.Options \ TargetOptionNames(o)
MatchingElements(o) ==
    IF o.Section # "section-l" THEN (IF o.Element = <<>> THEN {0} ELSE {})
    ELSE (IF o.Create THEN {0} ELSE {})
         \cup {j \in 1..Len(given.SectionL) :
                  o.Element = <<>> \/ given.SectionL[j].ID.s = o.Element}

\* C14: Override fails with an "unknown options" error and returns no
\* element whenever at least one key of the options names no option field
\* of the targeted section or element, and a request all of whose keys name
\* option fields never fails with that error.
UnknownOptionsExactly ==
    ret.op = "Override" /\ ValidateReq(ret.req[1]) = "" =>
        /\ UnknownKeys(ret.req[1]) # {} =>
              ret.el.err = "unknown options" /\ ret.el.value = NoValue
        /\ UnknownKeys(ret.req[1]) = {} => ret.el.err # "unknown options"

\* C14, amended: a shape-valid request with a key that names no option
\* field fails and returns no element, with "unknown options" unless the
\* walk failed first, on another of its keys or on the creation of the
\* element; a request all of whose keys
\* name option fields fails with "unknown options" exactly when it has
\* options and the targeted section holds nothing to lay them over: a list
\* without an element of the requested id, or a singleton section asked
\* for an element.
UnknownOptionsUnlessWalkFails ==
    ret.op = "Override" /\ ValidateReq(ret.req[1]) = "" =>
        /\ UnknownKeys(ret.req[1]) # {} =>
              /\ ret.el.value = NoValue
              /\ ret.el.err \in {"unknown options", "failed to apply changes"}
              /\ ret.el.err = "failed to apply changes" =>
                    \/ DOMAIN ret.req[1].Options \ UnknownKeys(ret.req[1]) # {}
                    \/ ret.req[1].Create
        /\ UnknownKeys(ret.req[1]) = {} =>
              (ret.el.err = "unknown options" <=>
                  /\ DOMAIN ret.req[1].Options # {}
                  /\ MatchingElements(ret.req[1]) = {})

\* An option of the elements was to be laid over the element b of a list
\* that holds only elements a, and the call failed with "unknown options".
UnknownOptionsUnlessWalkFailsWitness ==
    /\ ret.op = "Override"
    /\ ret.req[1] = OverrideReq("section-l", <<"b">>, [k \in {"option"} |-> Str(<<"n">>)], FALSE, FALSE)
    /\ Len(given.SectionL) = MaxElems
    /\ \A j \in 1..Len(given.SectionL) : given.SectionL[j].ID = Str(<<"a">>)
    /\ ret.el.err = "unknown options"

\* ---------------------------------------------------------------------
\* Properties of the stored override records
\* ---------------------------------------------------------------------

\* C15: within one POST body the sets are applied before the deletes: a key
\* that is in both the set and the delete of a request is absent from the
\* stored record afterwards, and GET /config shows the original value of
\* that option.
SetAndDeleteInOneBody ==
    \A k \in KeyInputs :
        /\ hs[1].pc = "done" /\ hs[1].stage \in {"resolve", "sent"}
        /\ k \in DOMAIN hs[1].ua.set /\ k \in hs[1].ua.delete
        =>  /\ hs[1].section \in DOMAIN store
            /\ k \notin DOMAIN store[hs[1].section]
            /\ (/\ getResp.code # 0
                /\ hs[1].section \in DOMAIN OriginalView
                /\ k \in DOMAIN OriginalView[hs[1].section])
               => /\ getResp.code = 200
                  /\ getResp.config[hs[1].section][k] = OriginalView[hs[1].section][k]

\* The record stored for id, empty when there is none.
StoredRecord(st, id) == IF id \in DOMAIN st THEN st[id] ELSE NoOptions

\* C16: after any sequence of sequential POSTs to a section id the stored
\* override map holds exactly the keys whose most recent operation was a
\* set, each with the value of its latest set. Step by step: the store
\* write of a POST to id leaves a record for id whose keys are those it had
\* and those the POST sets, less those it deletes, a key the POST sets
\* having the POST's value and any other key the value it had (the first
\* POST to an id starting from no key); no other step changes a record.
StoreFollowsSetsAndDeletes ==
    [][\A id \in DOMAIN store \cup DOMAIN store' :
          IF \E h \in Handlers : hs[h].pc = "set" /\ hs'[h].pc # "set" /\ hs[h].section = id
          THEN \A h \in Handlers :
                  hs[h].pc = "set" /\ hs'[h].pc # "set" /\ hs[h].section = id =>
                      /\ id \in DOMAIN store'
                      /\ DOMAIN store'[id] =
                            (DOMAIN StoredRecord(store, id) \cup DOMAIN hs[h].ua.set)
                                \ hs[h].ua.delete
                      /\ \A k \in DOMAIN store'[id] :
                            store'[id][k] = IF k \in DOMAIN hs[h].ua.set THEN hs[h].ua.set[k]
                                            ELSE StoredRecord(store, id)[k]
          ELSE id \in DOMAIN store /\ id \in DOMAIN store' /\ store'[id] = store[id]]_vars

\* A second POST has set the password of section-b again: the record holds
\* the value of the latest set.
StoreFollowsSetsAndDeletesWitness ==
    /\ hs[1].pc = "done" /\ hs[1].code = 204 /\ hs[1].section = "section-b"
    /\ hs[1].had /\ hs[1].pre = [k \in {"password"} |-> Str(<<"n">>)]
    /\ hs[1].ua.set = [k \in {"password"} |-> Str(<<>>)]
    /\ store["section-b"] = [k \in {"password"} |-> Str(<<>>)]

\* ---------------------------------------------------------------------
\* Properties of Override on lists with repeated ids
\* ---------------------------------------------------------------------

\* The places (from 1) of the original list whose element has the id a
\* request names.
PlacesOf(o) == {j \in 1..Len(given.SectionL) : given.SectionL[j].ID.s = o.Element}

\* C17: when the list-valued section holds two elements with the same id, a
\* non-create, non-delete Override of that id lays its options over exactly
\* one of them, the first in list order, and returns that element; the
\* other element with the id is unchanged in the working copy.
FirstMatchOnly ==
    /\ ret.op = "Override" /\ ret.el.err = ""
    /\ ret.req[1].Section = "section-l" /\ ret.req[1].Element # <<>>
    /\ ~ret.req[1].Create /\ ~ret.req[1].Delete
    /\ Cardinality(PlacesOf(ret.req[1])) >= 2
    => \E first \in PlacesOf(ret.req[1]) :
          /\ \A j \in PlacesOf(ret.req[1]) : first <= j
          /\ ret.el.value = ret.copy.SectionL[first]
          /\ "option" \in DOMAIN ret.req[1].Options =>
                ret.copy.SectionL[first].Option = ret.req[1].Options["option"]
          /\ \A j \in 1..Len(given.SectionL) :
                j # first => ret.copy.SectionL[j] = given.SectionL[j]

\* ---------------------------------------------------------------------
\* Properties of Override's checks of the request
\* ---------------------------------------------------------------------

\* The section names of the original: the section tags of the top-level
\* fields.
SectionNames ==
    {getSectionNameV2(TypeFields.Config[j]).name :
        j \in {i \in 1..Len(TypeFields.Config) : getSectionNameV2(TypeFields.Config[i]).ok}}

\* C18: Override of a section name that is the section tag of no top-level
\* field fails with an unknown-section error, for every shape-valid
\* request: with or without options, create, delete or plain.
UnknownSectionFails ==
    /\ ret.op = "Override" /\ ValidateReq(ret.req[1]) = ""
    /\ ret.req[1].Section \notin SectionNames
    => ret.el.err = "unknown section"

\* The requests that are not self-consistent, as the rules of the request
\* are written; and the element keys of the section a request targets, none
\* when the section is no list of elements.
ShapeInvalid(o) ==
    \/ o.Section = ""
    \/ o.Delete /\ (o.Element = <<>> \/ DOMAIN o.Options # {} \/ o.Create)
    \/ o.Create /\ o.Element # <<>>
ElementKeysOf(o) ==
    {getElementKey(TypeFields.Config[j]) :
        j \in {i \in 1..Len(TypeFields.Config) :
                  /\ getSectionNameV2(TypeFields.Config[i]).ok
                  /\ getSectionNameV2(TypeFields.Config[i]).name = o.Section}} \ {""}

RedactedIn(s, rec) ==
    {f \in SectionFields(s) : RedactTagged(f) /\ f.tags[ServiceTag][1].kw \in DOMAIN rec}

\* C20: redaction is a view. When a POST has overridden a redact-tagged
\* option to x and sent its update, the message on the channel carries x
\* itself in NewConfig, while the redacted map of that value shows the
\* boolean indicator only; a GET /config answered with the configuration
\* shows the boolean for every stored override of a redact-tagged option,
\* and the message published before it still carries x.
RedactionIsViewOnly ==
    /\ \A h \in Handlers :
          hs[h].pc = "done" /\ hs[h].stage = "sent" =>
              /\ \E i \in 1..Len(published) : published[i] = hs[h].msg
              /\ hs[h].msg.Name = hs[h].section
              /\ \A f \in RedactedIn(hs[h].section, hs[h].o.Overrides) :
                    /\ hs[h].msg.NewConfig[f.name] = hs[h].o.Overrides[f.tags[ServiceTag][1].kw]
                    /\ Redacted(ServiceTag,
                                [type |-> Sections(ServiceType, ServiceConfig)[hs[h].section].type,
                                 section |-> hs[h].msg.NewConfig])[f.tags[ServiceTag][1].kw]
                          = Bool(hs[h].o.Overrides[f.tags[ServiceTag][1].kw] # Str(<<>>))
    /\ getResp.code = 200 =>
          \A n \in DOMAIN store \cap DOMAIN getResp.config :
              \A f \in RedactedIn(n, store[n]) :
                  getResp.config[n][f.tags[ServiceTag][1].kw] =
                      Bool(store[n][f.tags[ServiceTag][1].kw] # Str(<<>>))

\* The password of section-b was set to "n" and the update sent; GET
\* /config then showed true for it, and the update still holds "n".
RedactionIsViewOnlyWitness ==
    /\ hs[1].pc = "done" /\ hs[1].stage = "sent" /\ hs[1].section = "section-b"
    /\ hs[1].ua.set = [k \in {"password"} |-> Str(<<"n">>)]
    /\ getResp.code = 200
    /\ getResp.config["section-b"]["password"] = Bool(TRUE)
    /\ published[Len(published)].NewConfig.Password = Str(<<"n">>)

\* ---------------------------------------------------------------------
\* Properties of the alert services
\* ---------------------------------------------------------------------

\* The lists Update is to refuse: not of length one, or holding a value
\* that is no Config of the service.
BadNewConfig(nc) == Len(nc) # 1 \/ nc[1] = OtherConfig

\* C21: Update called with a list whose length is not 1, or whose single
\* value is not of the service's Config type, returns an error and leaves
\* every configuration field of the service as it was: while the list of
\* the latest call is such a list, the call has returned with an error and
\* no step changes a field.
BadUpdateChangesNothing ==
    [][BadNewConfig(ad'.up.arg) =>
          /\ ad'.up.pc = "done" /\ ad'.up.err # ""
          /\ ad'.f = ad.f]_vars

\* After an Update that set the Config 2, an Update with a value of another
\* type has returned its error, and a reader has since read the url 2.
BadUpdateChangesNothingWitness ==
    /\ ad.up.pc = "done" /\ ad.up.arg = <<OtherConfig>> /\ ad.up.err # ""
    /\ ad.up.n = MaxUpdates
    /\ \A n \in {FieldOrder[j] : j \in 1..Len(FieldOrder)} : ad.f[n] = 2
    /\ \E i \in 1..NReaders : ad.rd[i].pc = "done" /\ ad.rd[i].op = "preparePost"
                              /\ ad.rd[i].seen.url = 2

\* C22: in every alert service each read of a configuration field is made
\* while the reader holds the shared lock and each write of Update while it
\* holds the exclusive lock, so no reader sees a mix of the fields of the
\* old and of the new Config.
ReadsAndWritesUnderLock ==
    /\ \A i \in 1..NReaders :
          /\ ad.rd[i].pc = "read" => ad.rd[i].held /\ ad.r > 0
          /\ \A a \in DOMAIN ad.rd[i].seen \ {"enabled"},
                b \in DOMAIN ad.rd[i].seen \ {"enabled"} :
                ad.rd[i].seen[a] = ad.rd[i].seen[b]
    /\ ad.up.pc = "write" => ad.w /\ ad.r = 0

\* C23: the SMTP service's Update always returns in the end, in every
\* state the service can reach: with or without a runMailer goroutine, from
\* an enabled or a disabled Config to an enabled or a disabled one, with
\* the mailer busy or not.
UpdateReturns == (sm.up.pc = "send") ~> (sm.up.pc = "done")

\* ---------------------------------------------------------------------
\* Properties of requests to different sections
\* ---------------------------------------------------------------------

\* What GET /config reports for the section b when the store is st: the
\* redacted options of b, or nothing when getConfig fails and the reply is
\* 500.
Reported(st, b) ==
    IF getConfig(st).err = "" THEN getConfig(st).config[b] ELSE NoValue

\* C24: a POST to a section A changes neither the stored record of another
\* section B nor what GET /config reports for B, and sends no update named
\* B: no step of a handler working on A does.
OtherSectionsUntouched ==
    [][\A h \in Handlers : hs'[h] # hs[h] /\ hs[h].pc \in {"get", "set", "send"} =>
          /\ \A b \in (DOMAIN store \cup DOMAIN store') \ {hs[h].section} :
                b \in DOMAIN store /\ b \in DOMAIN store' /\ store'[b] = store[b]
          /\ \A b \in DOMAIN OriginalView \ {hs[h].section} :
                Reported(store', b) = Reported(store, b)
          /\ \A i \in 1..Len(published') :
                i > Len(published) => published'[i].Name = hs[h].section]_vars

\* ---------------------------------------------------------------------
\* Properties of a record that does not resolve
\* ---------------------------------------------------------------------

\* The offending keys of the record rec of the section s: those that the
\* Overrider refuses when they are the only override of s.
Offending(s, rec) ==
    {k \in DOMAIN rec :
        Override(ServiceTag, ServiceType, ServiceConfig, s, [j \in {k} |-> rec[k]]).err # ""}

\* What C25 says of a handler h that is done with a request to one of the
\* sections ss. If its store write succeeded and its resolve failed, the
\* record it wrote is the stored one, with the keys it set, and it
\* published nothing. If it found a record with offending keys and its
\* body deleted them all and set nothing, it replied 204 and published the
\* section resolved from the corrected record, which is the stored one.
ReconciledIn(ss, h) ==
    hs[h].pc = "done" /\ hs[h].section \in ss =>
        /\ hs[h].stage = "resolve" =>
              /\ hs[h].section \in DOMAIN store
              /\ store[hs[h].section] = hs[h].o.Overrides
              /\ \A k \in DOMAIN hs[h].ua.set \ hs[h].ua.delete :
                    k \in DOMAIN store[hs[h].section]
                    /\ store[hs[h].section][k] = hs[h].ua.set[k]
              /\ hs[h].msg = NoMsg /\ hs[h].sent = 0
        /\ (/\ hs[h].had /\ hs[h].ua.ok /\ hs[h].ua.set = NoOptions
            /\ Offending(hs[h].section, hs[h].pre) # {}
            /\ Offending(hs[h].section, hs[h].pre) \subseteq hs[h].ua.delete)
           => /\ hs[h].code = 204 /\ hs[h].stage = "sent"
              /\ store[hs[h].section] =
                    [k \in DOMAIN hs[h].pre \ hs[h].ua.delete |-> hs[h].pre[k]]
              /\ published # <<>>
              /\ published[Len(published)] =
                    [Name |-> hs[h].section,
                     NewConfig |-> Overlay(hs[h].section, store[hs[h].section])]

\* C25: a POST whose store write succeeds and whose resolve fails leaves
\* the offending keys in the stored record and publishes no update; a later
\* POST to the same section that deletes the offending keys replies 204 and
\* publishes an update resolved from the corrected record.
RejectedRecordReconciled == ReconciledIn(SectionInputs, 1)

\* C25, amended: the same, the later POST being to a declared section.
RejectedRecordReconciledDeclared == ReconciledIn(DOMAIN OriginalView, 1)

\* The record of section-b held the unknown option-1; a POST that deleted
\* it was answered 204 and its update published.
RejectedRecordReconciledDeclaredWitness ==
    /\ hs[1].pc = "done" /\ hs[1].code = 204 /\ hs[1].section = "section-b"
    /\ hs[1].had /\ "option-1" \in DOMAIN hs[1].pre
    /\ hs[1].ua.delete = {"option-1"} /\ hs[1].ua.set = NoOptions
    /\ published # <<>> /\ published[Len(published)].Name = "section-b"

\* ---------------------------------------------------------------------
\* Properties of concurrent requests to one section
\* ---------------------------------------------------------------------

\* C26: two concurrent POSTs to one section that set distinct keys and both
\* reply 204 are both in the store: once both are done the stored record
\* of the section holds the key of each with the value it set.
BothWritesStored ==
    \A g \in Handlers, h \in Handlers :
        /\ g # h
        /\ hs[g].pc = "done" /\ hs[g].code = 204
        /\ hs[h].pc = "done" /\ hs[h].code = 204
        /\ hs[g].section = hs[h].section
        /\ DOMAIN hs[g].ua.set \cap DOMAIN hs[h].ua.set = {}
        /\ hs[g].ua.delete = {} /\ hs[h].ua.delete = {}
        => /\ hs[h].section \in DOMAIN store
           /\ \A k \in DOMAIN hs[h].ua.set :
                 /\ k \in DOMAIN store[hs[h].section]
                 /\ store[hs[h].section][k] = hs[h].ua.set[k]

\* ---------------------------------------------------------------------
\* Properties of rejected requests
\* ---------------------------------------------------------------------

\* The store as it was when the request of handler h began: the record of
\* its section is the one it read, or none.
StoreBefore(h) ==
    [b \in (DOMAIN store \ {hs[h].section})
              \cup (IF hs[h].had THEN {hs[h].section} ELSE {}) |->
        IF b = hs[h].section THEN hs[h].pre ELSE store[b]]

\* C27: a POST rejected with 400 does not change what later requests see:
\* GET /config after it replies 200 with the body it had before it, and a
\* later valid POST to the same section (a declared section, a body that
\* decodes, every key it sets accepted by the Overrider) is not rejected.
RejectedPostInvisible ==
    /\ hs[1].pc = "done" /\ hs[1].code = 400 =>
          /\ getConfig(store).err = ""
          /\ getConfig(store) = getConfig(StoreBefore(1))
    /\ (/\ hs[1].pc = "done" /\ hs[1].ua.ok
        /\ hs[1].section \in DOMAIN OriginalView
        /\ Offending(hs[1].section, hs[1].ua.set) = {})
       => hs[1].code = 204

\* ---------------------------------------------------------------------
\* Properties of the coercion into a TextUnmarshaler
\* ---------------------------------------------------------------------

\* The text UnmarshalText is handed, and whether it returns an error for it.
TextFor(o) == o.Options["timeout"]
UnmarshalTextFails(v) == v.k = "string" /\ ~ParseInt(v.s).ok

\* C28: when the option's field implements TextUnmarshaler and the source
\* is a string, the value of the field is what UnmarshalText made of the
\* text, and when UnmarshalText returns an error the Override returns an
\* error and no element.
UnmarshalErrorFailsOverride ==
    (/\ ret.op = "Override"
     /\ ValidateReq(ret.req[1]) = ""
     /\ ret.req[1].Section = "section-t" /\ ret.req[1].Element = <<>>
     /\ "timeout" \in DOMAIN ret.req[1].Options
     /\ TextFor(ret.req[1]).k = "string")
    => IF UnmarshalTextFails(TextFor(ret.req[1]))
       THEN ret.el.err # "" /\ ret.el.value = NoValue
       ELSE /\ ret.el.err = ""
            /\ ret.el.value.Timeout = Num("int64", ParseInt(TextFor(ret.req[1]).s).n)

\* ---------------------------------------------------------------------
\* Properties of untagged top-level fields
\* ---------------------------------------------------------------------

\* The top-level fields of the original's type that carry a section tag, and
\* their tag names.
TaggedFields ==
    {f \in {TypeFields[heap[original].type][i] :
               i \in 1..Len(TypeFields[heap[original].type])} :
        f.tags[structTagKey][1].kw # ""}
TaggedNames == {f.tags[structTagKey][1].kw : f \in TaggedFields}
UntaggedFields ==
    {f \in {TypeFields[heap[original].type][i] :
               i \in 1..Len(TypeFields[heap[original].type])} :
        f.tags[structTagKey][1].kw = ""}

\* C29: Sections() has an entry for exactly the top-level fields that carry
\* a section tag, keyed by the tag name, and none for an untagged field; no
\* Override modifies an untagged field of its working copy or returns one
\* as its element.
UntaggedFieldIgnored ==
    /\ ret.op = "Sections" =>
          /\ DOMAIN ret.sections.v1 = TaggedNames
          /\ ret.sections.v2.err = "" /\ DOMAIN ret.sections.v2.sections = TaggedNames
    /\ ret.op = "Override" =>
          /\ \A f \in UntaggedFields : ret.copy[f.name] = given[f.name]
          /\ ret.el.err = "" /\ ret.el.value # NoValue => ret.req[1].Section \in TaggedNames

\* ---------------------------------------------------------------------
\* Properties of OverrideAll
\* ---------------------------------------------------------------------

CreateC == OverrideReq("section-l", <<>>, [k \in {"id"} |-> Str(<<"c">>)], FALSE, TRUE)
ModifyC == OverrideReq("section-l", <<"c">>, [k \in {"option"} |-> Str(<<"n">>)], FALSE, FALSE)
DeleteC == OverrideReq("section-l", <<"c">>, NoOptions, TRUE, FALSE)

\* The elements of the list-valued section in the map OverrideAll returned.
ListReturned ==
    IF "section-l" \in DOMAIN ret.sections THEN ret.sections["section-l"] ELSE <<>>

\* C30: OverrideAll applies its overrides in list order to one working
\* copy: an element an earlier override created is there for a later one
\* to modify, and is not there for an override listed before its creation;
\* on success the map has every declared section, touched or not; the first
\* failing override ends the call with an error and no map.
OverrideAllInOrder ==
    ret.op = "OverrideAll" =>
        /\ ret.el.err = "" => DOMAIN ret.sections = SectionNames
        /\ ret.el.err # "" => ret.sections = NoValue
        /\ ret.req = <<CreateC, ModifyC>> =>
              /\ ret.el.err = ""
              /\ \E i \in 1..Len(ListReturned) :
                    /\ ListReturned[i].element = <<"c">>
                    /\ ListReturned[i].value.Option = Str(<<"n">>)
        /\ (ret.req # <<>> /\ ret.req[1] = ModifyC) => ret.el.err # ""
        /\ ret.req = <<CreateC, DeleteC>> =>
              /\ ret.el.err = ""
              /\ \A i \in 1..Len(ListReturned) : ListReturned[i].element # <<"c">>

\* ---------------------------------------------------------------------
\* Properties of create and delete on a list-valued section
\* ---------------------------------------------------------------------

\* The element a create request asks for: a new element of the section's
\* type with its key and the other options laid over it.
Overlaid(el, opts) ==
    [n \in DOMAIN el |->
        LET f == CHOOSE g \in {TypeFields.Element[i] : i \in 1..Len(TypeFields.Element)} :
                    g.name = n
        IN  IF optionNameFunc(OverriderTag, f) \in DOMAIN opts
            THEN opts[optionNameFunc(OverriderTag, f)] ELSE el[n]]
CreateOnList ==
    /\ ret.op = "Override" /\ ret.el.err = ""
    /\ ret.req[1].Create /\ ret.req[1].Section = "section-l"

\* C31: a create on the list-valued section leaves a working list that is
\* the original list with one element appended at its end: the new element
\* with the options laid over it, which is the element returned, under the
\* id its key option gives.
CreateAppendsOne ==
    CreateOnList =>
        /\ ret.copy.SectionL =
              Append(given.SectionL, Overlaid(newElement("Element"), ret.req[1].Options))
        /\ ret.el.value = Overlaid(newElement("Element"), ret.req[1].Options)
        /\ ret.el.element = ret.req[1].Options["id"].s

\* The original list without its first element with the id e.
RECURSIVE WithoutFirst(_, _)
WithoutFirst(list, e) ==
    IF list = <<>> THEN <<>>
    ELSE IF Head(list).ID.s = e THEN Tail(list)
    ELSE <<Head(list)>> \o WithoutFirst(Tail(list), e)
DeleteOnList ==
    /\ ret.op = "Override" /\ ret.el.err = ""
    /\ ret.req[1].Delete /\ ret.req[1].Section = "section-l"
    /\ \E i \in 1..Len(given.SectionL) : given.SectionL[i].ID.s = ret.req[1].Element

\* C32: a delete on the list-valued section removes from the working list
\* the element whose key is the request's element and nothing else: the
\* list is one shorter and the other elements keep their values and order;
\* within OverrideAll the element is absent from the returned section.
DeleteRemovesOne ==
    /\ DeleteOnList => ret.copy.SectionL = WithoutFirst(given.SectionL, ret.req[1].Element)
    /\ (/\ ret.op = "OverrideAll" /\ ret.el.err = ""
        /\ ret.req # <<>> /\ ret.req[Len(ret.req)] = OverrideReq("section-l", <<"a">>, NoOptions, TRUE, FALSE))
       => \A i \in 1..Len(ListReturned) : ListReturned[i].element # <<"a">>

\* C33: an Override without create whose options hold the element key of
\* the list-valued section fails, and leaves the key of every element of the
\* working list as it was.
ElementKeyOnlyByCreate ==
    (/\ ret.op = "Override" /\ ~ShapeInvalid(ret.req[1])
     /\ ~ret.req[1].Create /\ ret.req[1].Section = "section-l"
     /\ "id" \in DOMAIN ret.req[1].Options)
    => /\ ret.el.err # "" /\ ret.el.value = NoValue
       /\ Len(ret.copy.SectionL) = Len(given.SectionL)
       /\ \A i \in 1..Len(given.SectionL) : ret.copy.SectionL[i].ID = given.SectionL[i].ID

\* A request to rename the element a of a list that holds it was refused.
ElementKeyOnlyByCreateWitness ==
    /\ ret.op = "Override" /\ ret.el.err = "failed to apply changes"
    /\ ret.req[1] = OverrideReq("section-l", <<"a">>,
                                [k \in {"id"} |-> Str(<<"c">>)], FALSE, FALSE)
    /\ \E i \in 1..Len(given.SectionL) : given.SectionL[i].ID = Str(<<"a">>)

\* ---------------------------------------------------------------------
\* Properties of the element's Validate
\* ---------------------------------------------------------------------

InRange(k, n) ==
    IF isUintKind(k) THEN n >= 0 /\ n < Pow2(Width(k))
    ELSE n >= -Pow2(Width(k) - 1) /\ n < Pow2(Width(k) - 1)
ReducedInto(k, n, v) ==
    /\ v.k = k /\ v.s = <<>> /\ v.h = 0
    /\ InRange(k, v.n)
    /\ (v.n - n) % Pow2(Width(k)) = 0
Narrowing(f) ==
    /\ ret.op = "Nums"
    /\ DOMAIN ret.req[1].Options = {f.name}
    /\ Width(f.kind) # 0
    /\ isIntKind(ret.req[1].Options[f.name].k) \/ isUintKind(ret.req[1].Options[f.name].k)
    /\ ret.req[1].Options[f.name].k # f.kind
    /\ ~InRange(f.kind, ret.req[1].Options[f.name].n)

StoreWithout(s) == [b \in DOMAIN store \ {s} |-> store[b]]
OriginalSection(s) == IF s = "section-a" THEN ServiceConfig.SectionA ELSE ServiceConfig.SectionB
DeletedLastKey(h) ==
    /\ hs[h].pc = "done"
    /\ hs[h].section \in DOMAIN OriginalView
    /\ hs[h].ua.ok /\ hs[h].ua.set = NoOptions
    /\ hs[h].had /\ hs[h].pre # NoOptions
    /\ DOMAIN hs[h].pre \subseteq hs[h].ua.delete

\* C36: when a delete removes the last key of a section's record the
\* record stays in the store with an empty option map, the update published
\* for the request carries the section as the service was built with it,
\* and GET /config is what it is without the record.
EmptiedRecordIsKept ==
    DeletedLastKey(1) =>
        /\ hs[1].section \in DOMAIN store
        /\ store[hs[1].section] = NoOptions
        /\ hs[1].code = 204
        /\ hs[1].msg = [Name |-> hs[1].section, NewConfig |-> OriginalSection(hs[1].section)]
        /\ getConfig(store) = getConfig(StoreWithout(hs[1].section))
        /\ getConfig(store).err = "" =>
              getConfig(store).config[hs[1].section] = OriginalView[hs[1].section]

\* The second POST deleted the password an earlier POST had set on
\* section-b, and GET /config shows the section as built.
EmptiedRecordIsKeptWitness ==
    /\ DeletedLastKey(1)
    /\ hs[1].section = "section-b" /\ hs[1].ua.delete = {"password"}
    /\ hs[1].pre = [k \in {"password"} |-> Str(<<"n">>)]
    /\ store = [b \in {"section-b"} |-> NoOptions]
    /\ getConfig(store).err = ""

\* ---------------------------------------------------------------------
\* Properties of the send after an Update
\* ---------------------------------------------------------------------

\* The latest Update returned nil, and the reader i, in preparePost, reads
\* its next field in this step.
SendReads(i) ==
    /\ ad.up.pc = "done" /\ ad.up.err = "" /\ ad.up.n > 0
    /\ ad.rd[i].op = "preparePost" /\ ad.rd[i].pc = "read"
    /\ ad'.rd[i].j = ad.rd[i].j + 1

\* C37: after an Update(c) has returned nil, every configuration field the
\* send path reads, the enabled flag included, is read with the value it has
\* in c.
SendUsesUpdated ==
    [][\A i \in 1..NReaders :
          SendReads(i) =>
              ad'.rd[i].seen[ReadFields(ad.kind, "preparePost")[ad.rd[i].j]]
                  = ad.up.c[ReadFields(ad.kind, "preparePost")[ad.rd[i].j]]]_vars

\* ---------------------------------------------------------------------
\* Properties of the SMTP service's goroutines
\* ---------------------------------------------------------------------

\* The runMailer goroutines that have not returned.
Mailers == {k \in 1..Len(sm.ms) : sm.ms[k].pc # "exit"}

\* C38: at most one runMailer goroutine is running at any time, after any
\* sequence of Open and Update calls that toggle the enabled flag.
OneMailer == Cardinality(Mailers) <= 1


\* C39: Close always returns in the end: whatever a running runMailer
\* goroutine is doing when Close is called, making a new dialer after an
\* Update included, it sees the closed s.mail and returns, and Close's wait
\* ends.
CloseReturns == (sm.cl = "wait") ~> (sm.cl = "done")


\* The step in which a call of Update fails.
UpdateFails == sm'.up.n = sm.up.n + 1 /\ sm'.up.err # ""

\* C40: when Update returns an error (wrong list length, wrong type, or a
\* newly enabled Config with an empty From), the stored Config is the one
\* from before the call and no runMailer goroutine has been started, so a
\* SendMail that follows does what it did before.
FailedUpdateChangesNothing ==
    [][UpdateFails => sm'.c = sm.c /\ sm'.ms = sm.ms /\ sm'.running = sm.running]_vars
====
